---- MODULE Spec2Model ----
(***************************************************************************)
(* A model of @hillmonitor/client: the webhook signature verifier, the     *)
(* webhook router (serveWebhook), the scoped proxy client                  *)
(* (platformRequest) and the CRUD router (serveResource).                  *)
(*                                                                         *)
(* Texts that are hashed or parsed are TLA+ strings; a signature header is *)
(* a sequence of one-character strings, so that startsWith, slice and      *)
(* single-character changes are computed, not assumed.                     *)
(***************************************************************************)
EXTENDS Integers, Sequences, FiniteSets, TLC

(***************************************************************************)
(* Bounds of the model.                                                    *)
(***************************************************************************)
\* Bytes of a digest in the model (SHA-256 has 32).
DigestBytes == 2

\* Clock ticks that make up REQUEST_TIMEOUT_MS in the model.
TimeoutTicks == 2

\* The outbound calls a caller-supplied handler makes for one request, at most.
MaxOverrideCalls == 1

\* Requests the CRUD router handles side by side.
MaxInflight == 2

\* Calls of getDefaultCorsHandler in one run of the process.
MaxCorsCalls == 3

(***************************************************************************)
(* State.                                                                  *)
(***************************************************************************)
\* The environment (Deno.env): ENVIRONMENT = 'development', and the optional
\* values of HILLMONITOR_WEBHOOK_SECRET, HILLMONITOR_SECRET_KEY,
\* HILLMONITOR_FILTER_BY_USER and HILLMONITOR_API_URL.
VARIABLES envDevelopment, envWebhookSecret, envSecretKey, envFilterByUser, envApiUrl

envVars == <<envDevelopment, envWebhookSecret, envSecretKey, envFilterByUser, envApiUrl>>

\* A direct caller of verifyWebhookSignature: its inputs and the outcome.
VARIABLES vfIn, vfOut

verifyVars == <<vfIn, vfOut>>

VARIABLES
  wh,        \* what serveWebhook resolved when it was called: cors, secret, callbacks
  whPc,      \* where the handler of the current request stands
  whReq,     \* the current inbound request
  whLog,     \* the steps the handler has taken for the current request, in order
  whCalls,   \* the callbacks invoked for the current request, in order
  whResp     \* the response returned for the current request

whVars == <<wh, whPc, whReq, whLog, whCalls, whResp>>

VARIABLES
  plPc,      \* platformRequest: idle, fetching, reading, returned or thrown
  plOpts,    \* the options it was called with
  plOut,     \* the outbound request handed to fetch
  plTimer,   \* the timeout timer: unset, armed, cleared or fired
  plAborted, \* controller.signal.aborted
  plClock,   \* ticks since the timer was armed
  plStatus,  \* the status of the upstream response, once its headers arrived
  plFetches, \* the times the call has invoked fetch
  plText,    \* the response body read in full, once it has been
  plResult,  \* the PlatformResponse returned
  plFault    \* the fault rethrown to the caller

plVars == <<plPc, plOpts, plOut, plTimer, plAborted, plClock, plStatus, plFetches, plText, plResult, plFault>>

VARIABLES
  rs,        \* what serveResource resolved when it was called: path, handler table
  rsPc,      \* where the handler of the current request stands
  rsReq,     \* the current inbound request
  rsAuth,    \* what verifyAuth answered for it
  rsCtx,     \* the RequestContext built for it
  rsFetches, \* the outbound calls issued for it
  rsLog,     \* the steps the handler has taken for the current request, in order
  rsCalls,   \* the operation handlers invoked for the current request, in order
  rsResp     \* the response returned for the current request

rsVars == <<rs, rsPc, rsReq, rsAuth, rsCtx, rsFetches, rsLog, rsCalls, rsResp>>

\* Requests of the CRUD router in flight at the same time, each with the
\* locals of its handler and of its platformRequest.
VARIABLES inflight

ccVars == <<inflight>>

\* cors.ts: the module's cachedDefaultHandler (the origins of the handler, or
\* null), the value of HILLMONITOR_ALLOWED_ORIGINS, and what the calls of
\* getDefaultCorsHandler returned, in order.
VARIABLES cachedDefaultHandler, envAllowedOrigins, corsReturned

corsVars == <<cachedDefaultHandler, envAllowedOrigins, corsReturned>>

vars == <<envVars, verifyVars, whVars, plVars, rsVars, ccVars, corsVars>>

(***************************************************************************)
(* Optional values: null / undefined versus a present value.               *)
(***************************************************************************)
None == [some |-> FALSE]

Some(x) == [some |-> TRUE, val |-> x]

\* JavaScript truthiness of an optional string: null, undefined and "" are falsy.
TruthyStr(o) == o.some /\ o.val # ""

\* JavaScript truthiness of an optional character sequence.
TruthyChars(o) == o.some /\ o.val # <<>>

\* a ?? b
Coalesce(a, b) == IF a.some THEN a ELSE b

(***************************************************************************)
(* TextEncoder.encode: the UTF-8 bytes of the texts the model uses.        *)
(***************************************************************************)
TextEncode(text) ==
  CASE text = "abc" ->
       <<97,98,99>>
    [] text = "" ->
       <<>>
    [] text = "null" ->
       <<110,117,108,108>>
    [] text = "7" ->
       <<55>>
    [] text = "{\"x\":1}" ->
       <<123,34,120,34,58,49,125>>
    [] text = "{\"event\":\"meeting.processed\",\"data\":{\"meeting_id\":7}}" ->
       <<123,34,101,118,101,110,116,34,58,34,109,101,101,116,105,110,103,46,112,114,111,99,101,115,115,101,100,34,44,34,100,97,116,97,34,58,123,34,109,101,101,116,105,110,103,95,105,100,34,58,55,125,125>>
    [] text = "{\"event\":\"meeting.processed\",\"data\":{\"meeting_id\":8}}" ->
       <<123,34,101,118,101,110,116,34,58,34,109,101,101,116,105,110,103,46,112,114,111,99,101,115,115,101,100,34,44,34,100,97,116,97,34,58,123,34,109,101,101,116,105,110,103,95,105,100,34,58,56,125,125>>
    [] text = "{\"event\":\"meeting.processed\"}" ->
       <<123,34,101,118,101,110,116,34,58,34,109,101,101,116,105,110,103,46,112,114,111,99,101,115,115,101,100,34,125>>
    [] text = "{\"event\":\"gazette.processed\",\"data\":{\"records_processed\":1,\"matches_created\":0}}" ->
       <<123,34,101,118,101,110,116,34,58,34,103,97,122,101,116,116,101,46,112,114,111,99,101,115,115,101,100,34,44,34,100,97,116,97,34,58,123,34,114,101,99,111,114,100,115,95,112,114,111,99,101,115,115,101,100,34,58,49,44,34,109,97,116,99,104,101,115,95,99,114,101,97,116,101,100,34,58,48,125,125>>
    [] text = "{\"event\":\"other.event\",\"data\":{}}" ->
       <<123,34,101,118,101,110,116,34,58,34,111,116,104,101,114,46,101,118,101,110,116,34,44,34,100,97,116,97,34,58,123,125,125>>
    [] text = "s" ->
       <<115>>
    [] text = "t" ->
       <<116>>

(***************************************************************************)
(* crypto.subtle.sign('HMAC', key, data).  SHA-256 itself is replaced by a *)
(* small keyed compression over DigestBytes bytes; the nesting             *)
(* H(key, H(key, message)) of HMAC is kept.  On the texts of the model the *)
(* function is collision-free (HmacCollisionFree below), as HMAC-SHA256 is *)
(* taken to be.                                                            *)
(***************************************************************************)
Modulus == 256 ^ DigestBytes

Mix(h, b) == (h * 31 + b + 7) % Modulus

\* Mix folded over bytes from left to right.  The sequence is split in halves
\* and the state after the first half is computed before the second is entered.
RECURSIVE Absorb(_, _)
Absorb(h, bytes) ==
  IF bytes = <<>> THEN h
  ELSE IF Len(bytes) = 1 THEN Mix(h, bytes[1])
  ELSE LET half == Len(bytes) \div 2
           mid == Absorb(h, SubSeq(bytes, 1, half))
       IN  IF mid \in 0..(Modulus - 1)
           THEN Absorb(mid, SubSeq(bytes, half + 1, Len(bytes)))
           ELSE mid

ToBytes(n) == [i \in 1..DigestBytes |-> (n \div (256 ^ (DigestBytes - i))) % 256]

HmacSha256(keyBytes, dataBytes) ==
  LET inner == Absorb(Absorb(54, keyBytes), dataBytes)
      outer == Absorb(Absorb(92, keyBytes), ToBytes(inner))
  IN  ToBytes(outer)

(***************************************************************************)
(* Array.from(bytes).map(b => b.toString(16).padStart(2, '0')).join('')    *)
(***************************************************************************)
HexDigit == <<"0","1","2","3","4","5","6","7","8","9","a","b","c","d","e","f">>

\* Number.prototype.toString(16) of a byte: no leading zero.
ToString16(b) ==
  IF b < 16 THEN <<HexDigit[b + 1]>>
  ELSE <<HexDigit[(b \div 16) + 1], HexDigit[(b % 16) + 1]>>

\* String.prototype.padStart(2, '0')
PadStart2(s) == IF Len(s) < 2 THEN <<"0">> \o s ELSE s

RECURSIVE HexJoin(_)
HexJoin(bytes) ==
  IF bytes = <<>> THEN <<>>
  ELSE PadStart2(ToString16(Head(bytes))) \o HexJoin(Tail(bytes))

\* The lowercase hex HMAC digest of payload under secret.
expectedSignature(payload, secret) ==
  HexJoin(HmacSha256(TextEncode(secret), TextEncode(payload)))

(***************************************************************************)
(* verifyWebhookSignature: "ok", or the message of the Error it throws.    *)
(***************************************************************************)
SigPrefix == <<"s","h","a","2","5","6","=">>

\* String.prototype.startsWith
StartsWith(s, p) == Len(s) >= Len(p) /\ SubSeq(s, 1, Len(p)) = p

\* String.prototype.slice(n)
Slice(s, n) == SubSeq(s, n + 1, Len(s))

ErrMissingSignature == "Missing webhook signature"

ErrSignatureFormat == "Invalid signature format: expected sha256= prefix"

ErrSignatureMismatch == "Invalid webhook signature"

\* String.prototype.toLowerCase on the characters of a signature.
ToLowerCase(s) ==
  [i \in 1..Len(s) |->
     CASE s[i] = "A" -> "a" [] s[i] = "F" -> "f" [] OTHER -> s[i]]

\* verifyWebhookSignature comparing the digests without regard to case.
verifyWebhookSignature_IgnoreCase(payload, signature, secret) ==
  IF ~TruthyChars(signature) THEN ErrMissingSignature
  ELSE IF ~StartsWith(signature.val, SigPrefix) THEN ErrSignatureFormat
  ELSE IF ToLowerCase(Slice(signature.val, 7)) # expectedSignature(payload, secret)
    THEN ErrSignatureMismatch
  ELSE "ok"

\* verifyWebhookSignature taking the bare digest as well as the prefixed one.
verifyWebhookSignature_PrefixOptional(payload, signature, secret) ==
  IF ~TruthyChars(signature) THEN ErrMissingSignature
  ELSE LET receivedSignature == IF StartsWith(signature.val, SigPrefix)
                                THEN Slice(signature.val, 7)
                                ELSE signature.val
       IN  IF receivedSignature # expectedSignature(payload, secret)
           THEN ErrSignatureMismatch
           ELSE "ok"

verifyWebhookSignature(payload, signature, secret) ==
  IF ~TruthyChars(signature) THEN ErrMissingSignature
  ELSE IF ~StartsWith(signature.val, SigPrefix) THEN ErrSignatureFormat
  ELSE LET receivedSignature == Slice(signature.val, 7)
       IN  IF receivedSignature # expectedSignature(payload, secret)
           THEN ErrSignatureMismatch
           ELSE "ok"

(***************************************************************************)
(* Inputs of the verifier.                                                 *)
(***************************************************************************)
\* Characters a forged or damaged signature header is built from.
SigAlphabet ==
  {"0","1","2","3","4","5","6","7","8","9","a","b","c","d","e","f",
   "A","F","s","h","=","x"}

\* Every string that differs from s in exactly one character.
SingleCharMutations(s) ==
  {[s EXCEPT ![i] = c] : i \in 1..Len(s), c \in SigAlphabet} \ {s}

VerifyPayloads ==
  {"abc", "", "{\"event\":\"meeting.processed\",\"data\":{\"meeting_id\":7}}"}

VerifySecrets == {"s", "t"}

\* The header in the documented wire format.
WireSignature(payload, secret) == SigPrefix \o expectedSignature(payload, secret)

VerifySignatures(payload, secret) ==
  {None, Some(<<>>),
   Some(expectedSignature(payload, secret)),
   Some(WireSignature(payload, secret))}
  \cup {Some(m) : m \in SingleCharMutations(expectedSignature(payload, secret))}
  \cup {Some(m) : m \in SingleCharMutations(WireSignature(payload, secret))}
  \cup {Some(WireSignature(p, s)) : p \in VerifyPayloads, s \in VerifySecrets}
  \cup {Some(WireSignature(payload, secret) \o <<c>>) : c \in {"0", "a"}}
  \cup {Some(SubSeq(WireSignature(payload, secret), 1, n)) :
          n \in 6..(Len(WireSignature(payload, secret)) - 1)}

VerifyIdle == vfIn = None /\ vfOut = "idle"

VerifyInit ==
  /\ \E p \in VerifyPayloads, s \in VerifySecrets :
       \E sig \in VerifySignatures(p, s) :
         vfIn = Some([payload |-> p, signature |-> sig, secret |-> s])
  /\ vfOut = "pending"

\* One call of verifyWebhookSignature on the drawn inputs.
VerifyCall ==
  /\ vfOut = "pending"
  /\ vfOut' = verifyWebhookSignature(vfIn.val.payload, vfIn.val.signature, vfIn.val.secret)
  /\ UNCHANGED <<vfIn, envVars, whVars, plVars, rsVars, ccVars, corsVars>>

\* A second call on the same inputs: the caller asks again.
VerifyAgain ==
  /\ vfOut \notin {"pending", "idle"}
  /\ vfOut' = "pending"
  /\ UNCHANGED <<vfIn, envVars, whVars, plVars, rsVars, ccVars, corsVars>>


(***************************************************************************)
(* JSON values and JSON.parse on the texts of the model.                   *)
(***************************************************************************)
JUndefined == [t |-> "undefined"]

JNull == [t |-> "null"]

JNum(n) == [t |-> "number", n |-> n]

JStr(s) == [t |-> "string", s |-> s]

JObj(f) == [t |-> "object", f |-> f]

EmptyObj == JObj(<<>>)

\* Reading a property of v throws a TypeError.
PropThrows(v) == v.t \in {"undefined", "null"}

\* v[k] for a v whose properties can be read.
GetProp(v, k) ==
  IF v.t = "object" /\ k \in DOMAIN v.f THEN v.f[k] ELSE JUndefined

ParseOk(v) == [ok |-> TRUE, value |-> v]

ParseFail == [ok |-> FALSE]

JsonParse(text) ==
  CASE text = "null" -> ParseOk(JNull)
    [] text = "7" -> ParseOk(JNum(7))
    [] text = "{\"x\":1}" -> ParseOk(JObj([x |-> JNum(1)]))
    [] text = "{\"event\":\"meeting.processed\",\"data\":{\"meeting_id\":7}}" ->
         ParseOk(JObj([event |-> JStr("meeting.processed"),
                       data |-> JObj([meeting_id |-> JNum(7)])]))
    [] text = "{\"event\":\"meeting.processed\",\"data\":{\"meeting_id\":8}}" ->
         ParseOk(JObj([event |-> JStr("meeting.processed"),
                       data |-> JObj([meeting_id |-> JNum(8)])]))
    [] text = "{\"event\":\"meeting.processed\"}" ->
         ParseOk(JObj([event |-> JStr("meeting.processed")]))
    [] text = "{\"event\":\"gazette.processed\",\"data\":{\"records_processed\":1,\"matches_created\":0}}" ->
         ParseOk(JObj([event |-> JStr("gazette.processed"),
                       data |-> JObj([records_processed |-> JNum(1),
                                      matches_created |-> JNum(0)])]))
    [] text = "{\"event\":\"other.event\",\"data\":{}}" ->
         ParseOk(JObj([event |-> JStr("other.event"), data |-> EmptyObj]))
    [] text = "{\"id\":1}" -> ParseOk(JObj([id |-> JNum(1)]))
    [] text = "{\"x\":1,\"external_user_id\":\"evil\"}" ->
         ParseOk(JObj([x |-> JNum(1), external_user_id |-> JStr("evil")]))
    [] OTHER -> ParseFail

(***************************************************************************)
(* response.ts                                                             *)
(***************************************************************************)
jsonResponse(data, status) == [status |-> status, body |-> data]

successResponse(data) == jsonResponse(data, 200)

noContentResponse == [status |-> 204, body |-> [empty |-> TRUE]]

\* details is an optional string; it is shown in development mode only.
errorResponse(message, status, details, isDevelopment) ==
  jsonResponse(
    IF isDevelopment /\ TruthyStr(details)
    THEN [error |-> message, details |-> details.val]
    ELSE [error |-> message],
    status)

badRequestResponse(message, isDevelopment) ==
  errorResponse(message, 400, None, isDevelopment)

unauthorizedResponse(isDevelopment) ==
  errorResponse("Unauthorized", 401, None, isDevelopment)

methodNotAllowedResponse(isDevelopment) ==
  errorResponse("Method not allowed", 405, None, isDevelopment)

\* A server error that shows the caught error in every mode.
serverErrorResponse_AlwaysVerbose(error, isDevelopment) ==
  errorResponse(
    IF error.some THEN error.val ELSE "Internal server error",
    500,
    IF error.some THEN Some("Error: " \o error.val) ELSE None,
    TRUE)

\* error is the optional caught Error, given by its message.
serverErrorResponse(error, isDevelopment) ==
  errorResponse(
    IF isDevelopment /\ error.some THEN error.val ELSE "Internal server error",
    500,
    IF isDevelopment /\ error.some THEN Some("Error: " \o error.val) ELSE None,
    isDevelopment)

\* cors.handleCorsPrelight: new Response('ok', {headers})
handleCorsPrelight == [status |-> 200, body |-> [text |-> "ok"]]

(***************************************************************************)
(* serveWebhook                                                            *)
(***************************************************************************)
WebhookMethods == {"POST", "GET", "OPTIONS"}

WebhookBodies ==
  {"abc", "", "null", "7", "{\"x\":1}",
   "{\"event\":\"meeting.processed\",\"data\":{\"meeting_id\":7}}",
   "{\"event\":\"meeting.processed\",\"data\":{\"meeting_id\":8}}",
   "{\"event\":\"meeting.processed\"}",
   "{\"event\":\"gazette.processed\",\"data\":{\"records_processed\":1,\"matches_created\":0}}",
   "{\"event\":\"other.event\",\"data\":{}}"}

\* X-HillMonitor-Signature headers a sender may attach to body.
WebhookSignatures(body) ==
  {None, Some(<<>>),
   Some(expectedSignature(body, "s")),
   Some(WireSignature(body, "s")),
   Some(WireSignature(body, "t")),
   Some([WireSignature(body, "s") EXCEPT ![Len(SigPrefix) + 1] = "x"])}

\* Messages of the errors a callback may throw.
CallbackErrors == {"boom", "bang"}

\* A gate that looks at the secret before it looks at the method.
WebhookGate_SecretFirst(method, cors, secret) ==
  IF method = "OPTIONS" /\ cors
    THEN [next |-> "preflight", log |-> <<"preflight">>]
  ELSE IF ~TruthyStr(secret)
    THEN [next |-> "500", log |-> <<"secretCheck">>]
  ELSE IF method # "POST"
    THEN [next |-> "405", log |-> <<"secretCheck", "methodCheck">>]
  ELSE [next |-> "verify", log |-> <<"secretCheck", "methodCheck", "readBody">>]

\* A gate that checks the method before it looks for a preflight.
WebhookGate_MethodFirst(method, cors, secret) ==
  IF method # "POST"
    THEN [next |-> "405", log |-> <<"methodCheck">>]
  ELSE IF ~TruthyStr(secret)
    THEN [next |-> "500", log |-> <<"methodCheck", "secretCheck">>]
  ELSE [next |-> "verify", log |-> <<"methodCheck", "secretCheck", "readBody">>]

\* Lines 355-377: up to the point where the body is read.
WebhookGate(method, cors, secret) ==
  IF method = "OPTIONS" /\ cors
    THEN [next |-> "preflight", log |-> <<"preflight">>]
  ELSE IF method # "POST"
    THEN [next |-> "405", log |-> <<"methodCheck">>]
  ELSE IF ~TruthyStr(secret)
    THEN [next |-> "500", log |-> <<"methodCheck", "secretCheck">>]
  ELSE [next |-> "verify", log |-> <<"methodCheck", "secretCheck", "readBody">>]

\* WebhookDispatch handing payload.data, not payload.data.meeting_id, to
\* onMeetingProcessed.
WebhookDispatch_PassesData(payload, onMeetingProcessed, onGazetteProcessed) ==
  IF PropThrows(payload)
    THEN [fault |-> Some("Cannot read properties of null (reading 'event')"),
          call |-> None]
  ELSE LET event == GetProp(payload, "event")
           data == GetProp(payload, "data")
       IN  IF event = JStr("meeting.processed")
             THEN IF ~onMeetingProcessed THEN [fault |-> None, call |-> None]
                  ELSE IF PropThrows(data)
                    THEN [fault |-> Some("Cannot read properties of undefined (reading 'meeting_id')"),
                          call |-> None]
                  ELSE [fault |-> None,
                        call |-> Some([callback |-> "onMeetingProcessed", arg |-> data])]
           ELSE IF event = JStr("gazette.processed")
             THEN IF ~onGazetteProcessed THEN [fault |-> None, call |-> None]
                  ELSE [fault |-> None,
                        call |-> Some([callback |-> "onGazetteProcessed", arg |-> data])]
           ELSE [fault |-> None, call |-> None]

\* WebhookDispatch throwing in the default arm and for a missing callback.
WebhookDispatch_ThrowsUnhandled(payload, onMeetingProcessed, onGazetteProcessed) ==
  IF PropThrows(payload)
    THEN [fault |-> Some("Cannot read properties of null (reading 'event')"),
          call |-> None]
  ELSE LET event == GetProp(payload, "event")
           data == GetProp(payload, "data")
           unhandled == [fault |-> Some("Unhandled webhook event"), call |-> None]
       IN  IF event = JStr("meeting.processed")
             THEN IF ~onMeetingProcessed THEN unhandled
                  ELSE IF PropThrows(data)
                    THEN [fault |-> Some("Cannot read properties of undefined (reading 'meeting_id')"),
                          call |-> None]
                  ELSE [fault |-> None,
                        call |-> Some([callback |-> "onMeetingProcessed",
                                       arg |-> GetProp(data, "meeting_id")])]
           ELSE IF event = JStr("gazette.processed")
             THEN IF ~onGazetteProcessed THEN unhandled
                  ELSE [fault |-> None,
                        call |-> Some([callback |-> "onGazetteProcessed", arg |-> data])]
           ELSE unhandled

\* Lines 400-414: the switch on payload.event.  fault: reading a property threw
\* before any callback was called; call: the callback invoked, with its argument.
WebhookDispatch(payload, onMeetingProcessed, onGazetteProcessed) ==
  IF PropThrows(payload)
    THEN [fault |-> Some("Cannot read properties of null (reading 'event')"),
          call |-> None]
  ELSE LET event == GetProp(payload, "event")
           data == GetProp(payload, "data")
       IN  IF event = JStr("meeting.processed")
             THEN IF ~onMeetingProcessed THEN [fault |-> None, call |-> None]
                  ELSE IF PropThrows(data)
                    THEN [fault |-> Some("Cannot read properties of undefined (reading 'meeting_id')"),
                          call |-> None]
                  ELSE [fault |-> None,
                        call |-> Some([callback |-> "onMeetingProcessed",
                                       arg |-> GetProp(data, "meeting_id")])]
           ELSE IF event = JStr("gazette.processed")
             THEN IF ~onGazetteProcessed THEN [fault |-> None, call |-> None]
                  ELSE [fault |-> None,
                        call |-> Some([callback |-> "onGazetteProcessed", arg |-> data])]
           ELSE [fault |-> None, call |-> None]

\* WebhookProcess going on after a failed verification (the catch does not return).
WebhookProcess_IgnoresVerification(body, signature, secret, onMeetingProcessed, onGazetteProcessed, isDevelopment) ==
  IF ~JsonParse(body).ok
    THEN [log |-> <<"verify", "parse">>, call |-> None,
          resp |-> Some(badRequestResponse("Invalid JSON payload", isDevelopment))]
  ELSE LET d == WebhookDispatch(JsonParse(body).value,
                                onMeetingProcessed, onGazetteProcessed)
       IN  IF d.fault.some
             THEN [log |-> <<"verify", "parse", "dispatch">>, call |-> None,
                   resp |-> Some(serverErrorResponse(d.fault, isDevelopment))]
           ELSE IF d.call.some
             THEN [log |-> <<"verify", "parse", "dispatch">>, call |-> d.call,
                   resp |-> None]
           ELSE [log |-> <<"verify", "parse", "dispatch">>, call |-> None,
                 resp |-> Some(successResponse([received |-> TRUE]))]

\* A router whose 401 carries the message of the verification error.
WebhookProcess_DisclosesReason(body, signature, secret, onMeetingProcessed, onGazetteProcessed, isDevelopment) ==
  IF verifyWebhookSignature(body, signature, secret) # "ok"
    THEN [log |-> <<"verify">>, call |-> None,
          resp |-> Some(errorResponse(verifyWebhookSignature(body, signature, secret), 401,
                                      None, isDevelopment))]
  ELSE WebhookProcess_IgnoresVerification(body, signature, secret, onMeetingProcessed,
                                          onGazetteProcessed, isDevelopment)

\* Lines 379-416: from the verification of the body that was read to the first
\* await of a callback, or to the response.
WebhookProcess(body, signature, secret, onMeetingProcessed, onGazetteProcessed, isDevelopment) ==
  IF verifyWebhookSignature(body, signature, secret) # "ok"
    THEN [log |-> <<"verify">>, call |-> None,
          resp |-> Some(unauthorizedResponse(isDevelopment))]
  ELSE IF ~JsonParse(body).ok
    THEN [log |-> <<"verify", "parse">>, call |-> None,
          resp |-> Some(badRequestResponse("Invalid JSON payload", isDevelopment))]
  ELSE LET d == WebhookDispatch(JsonParse(body).value,
                                onMeetingProcessed, onGazetteProcessed)
       IN  IF d.fault.some
             THEN [log |-> <<"verify", "parse", "dispatch">>, call |-> None,
                   resp |-> Some(serverErrorResponse(d.fault, isDevelopment))]
           ELSE IF d.call.some
             THEN [log |-> <<"verify", "parse", "dispatch">>, call |-> d.call,
                   resp |-> None]
           ELSE [log |-> <<"verify", "parse", "dispatch">>, call |-> None,
                 resp |-> Some(successResponse([received |-> TRUE]))]

NotWebhook == <<envVars, verifyVars, plVars, rsVars, ccVars, corsVars>>

WebhookIdle ==
  /\ whPc = "idle"
  /\ whReq = None
  /\ whLog = <<>>
  /\ whCalls = <<>>
  /\ whResp = None

\* serveWebhook(config): lines 350-352.
WebhookInit ==
  /\ envDevelopment \in BOOLEAN
  /\ envWebhookSecret \in {None, Some(""), Some("t")}
  /\ \E cors \in BOOLEAN, secret \in {None, Some("s")},
        onMeetingProcessed \in BOOLEAN, onGazetteProcessed \in BOOLEAN :
       wh = [cors |-> cors,
             configSecret |-> secret,
             secret |-> Coalesce(secret, envWebhookSecret),
             onMeetingProcessed |-> onMeetingProcessed,
             onGazetteProcessed |-> onGazetteProcessed]
  /\ WebhookIdle

\* An inbound request reaches the handler.
WhReceive ==
  /\ whPc = "idle"
  /\ \E method \in WebhookMethods, body \in WebhookBodies :
       \E signature \in WebhookSignatures(body) :
         whReq' = Some([method |-> method, body |-> body, signature |-> signature])
  /\ whPc' = "received"
  /\ UNCHANGED <<wh, whLog, whCalls, whResp, NotWebhook>>

\* The handler runs to its first await (req.text()) or returns.
WhBegin ==
  /\ whPc = "received"
  /\ LET g == WebhookGate(whReq.val.method, wh.cors, wh.secret)
     IN  /\ whLog' = whLog \o g.log
         /\ CASE g.next = "preflight" ->
                   whResp' = Some(handleCorsPrelight) /\ whPc' = "responded"
              [] g.next = "405" ->
                   /\ whResp' = Some(methodNotAllowedResponse(envDevelopment))
                   /\ whPc' = "responded"
              [] g.next = "500" ->
                   /\ whResp' = Some(serverErrorResponse(None, envDevelopment))
                   /\ whPc' = "responded"
              [] g.next = "verify" ->
                   whResp' = whResp /\ whPc' = "verifying"
  /\ UNCHANGED <<wh, whReq, whCalls, NotWebhook>>

\* The body has been read: verification, parsing and dispatch.
WhVerified ==
  /\ whPc = "verifying"
  /\ LET r == WebhookProcess(whReq.val.body, whReq.val.signature, wh.secret.val,
                             wh.onMeetingProcessed, wh.onGazetteProcessed,
                             envDevelopment)
     IN  /\ whLog' = whLog \o r.log
         /\ whCalls' = IF r.call.some THEN Append(whCalls, r.call.val) ELSE whCalls
         /\ whResp' = r.resp
         /\ whPc' = IF r.call.some THEN "callback" ELSE "responded"
  /\ UNCHANGED <<wh, whReq, NotWebhook>>

\* The awaited callback resolves.
WhCallbackReturns ==
  /\ whPc = "callback"
  /\ whLog' = Append(whLog, "callbackReturned")
  /\ whResp' = Some(successResponse([received |-> TRUE]))
  /\ whPc' = "responded"
  /\ UNCHANGED <<wh, whReq, whCalls, NotWebhook>>

\* A handler that acknowledges the event although its callback failed.
WhCallbackThrows_Acknowledges ==
  /\ whPc = "callback"
  /\ whResp' = Some(successResponse([received |-> TRUE]))
  /\ whLog' = Append(whLog, "callbackThrew")
  /\ whPc' = "responded"
  /\ UNCHANGED <<wh, whReq, whCalls, NotWebhook>>

\* The awaited callback throws or rejects: the outer catch answers.
WhCallbackThrows ==
  /\ whPc = "callback"
  /\ \E message \in CallbackErrors :
       whResp' = Some(serverErrorResponse(Some(message), envDevelopment))
  /\ whLog' = Append(whLog, "callbackThrew")
  /\ whPc' = "responded"
  /\ UNCHANGED <<wh, whReq, whCalls, NotWebhook>>

\* The response has been sent; the handler is ready for the next request.
WhFinish ==
  /\ whPc = "responded"
  /\ whPc' = "idle"
  /\ whReq' = None
  /\ whLog' = <<>>
  /\ whCalls' = <<>>
  /\ whResp' = None
  /\ UNCHANGED <<wh, NotWebhook>>

WebhookNext ==
  \/ WhReceive
  \/ WhBegin
  \/ WhVerified
  \/ WhCallbackReturns
  \/ WhCallbackThrows
  \/ WhFinish


(***************************************************************************)
(* platform-client.ts                                                      *)
(***************************************************************************)
REQUEST_TIMEOUT_MS == 30000

\* Milliseconds of one tick of the model's clock.
TickMs == REQUEST_TIMEOUT_MS \div TimeoutTicks

DefaultApiUrl == "https://api.hillmonitor.ca"

isPlatformConfigured(secretKey) == TruthyStr(secretKey)

shouldFilterByUser(envValue) == envValue # Some("false")

\* URLSearchParams, a sequence of <<key, value>> entries.
SearchAppend(q, k, v) == Append(q, <<k, v>>)

\* URLSearchParams.set: the first entry of the key takes the value and the
\* other entries of the key are removed; without one the entry is appended.
SearchSet(q, k, v) ==
  IF \E i \in 1..Len(q) : q[i][1] = k
  THEN LET first == CHOOSE i \in 1..Len(q) :
                      q[i][1] = k /\ \A j \in 1..(i - 1) : q[j][1] # k
       IN  SelectSeq([i \in 1..Len(q) |-> IF i = first THEN <<k, v, "kept">> ELSE q[i]],
                     LAMBDA e : e[1] # k \/ Len(e) = 3)
  ELSE Append(q, <<k, v>>)

\* The entries of SearchSet's result without the mark of the entry kept.
SearchEntries(q) == [i \in 1..Len(q) |-> <<q[i][1], q[i][2]>>]

\* Lines 136-140: the params whose value is neither undefined nor null, in order.
RECURSIVE AppendParams(_, _)
AppendParams(q, params) ==
  IF params = <<>> THEN q
  ELSE AppendParams(
         IF Head(params)[2].some
         THEN SearchAppend(q, Head(params)[1], Head(params)[2].val)
         ELSE q,
         Tail(params))

\* A query that carries the identity whatever the method.
BuildQuery_AnyMethod(method, params, userId, filterByUser) ==
  LET searchParams == AppendParams(<<>>, params)
  IN  IF filterByUser /\ TruthyStr(userId)
      THEN SearchEntries(SearchSet(searchParams, "external_user_id", userId.val))
      ELSE searchParams

\* searchParams.append in place of searchParams.set at line 144: an
\* external_user_id of the params stays in the query string.
BuildQuery_AppendsIdentity(method, params, userId, filterByUser) ==
  LET searchParams == AppendParams(<<>>, params)
  IN  IF method = "GET" /\ filterByUser /\ TruthyStr(userId)
      THEN Append(searchParams, <<"external_user_id", userId.val>>)
      ELSE searchParams

\* Lines 132-149: the query of the outbound URL.
BuildQuery(method, params, userId, filterByUser) ==
  LET searchParams == AppendParams(<<>>, params)
  IN  IF method = "GET" /\ filterByUser /\ TruthyStr(userId)
      THEN SearchEntries(SearchSet(searchParams, "external_user_id", userId.val))
      ELSE searchParams

\* JavaScript truthiness of an optional JSON value.
TruthyJson(o) ==
  /\ o.some
  /\ o.val.t \notin {"undefined", "null"}
  /\ o.val.t = "number" => o.val.n # 0
  /\ o.val.t = "string" => o.val.s # ""
  /\ o.val.t = "boolean" => o.val.b

\* The own enumerable properties {...v} copies.
SpreadProps(v) == IF v.t = "object" THEN v.f ELSE <<>>

\* {external_user_id: userId, ...body}: a key of the body wins over the identity.
WithUserId_BodyWins(body, userId) ==
  JObj([k \in DOMAIN SpreadProps(body) \cup {"external_user_id"} |->
          IF k \in DOMAIN SpreadProps(body) THEN SpreadProps(body)[k] ELSE JStr(userId)])

\* {...body, external_user_id: userId}
WithUserId(body, userId) ==
  JObj([k \in DOMAIN SpreadProps(body) \cup {"external_user_id"} |->
          IF k = "external_user_id" THEN JStr(userId) ELSE SpreadProps(body)[k]])

\* Lines 151-158: the body handed to JSON.stringify.
BuildRequestBody(method, body, userId, filterByUser) ==
  IF method \in {"POST", "PATCH", "PUT"} /\ TruthyJson(body) /\ filterByUser /\ TruthyStr(userId)
  THEN Some(WithUserId(body.val, userId.val))
  ELSE body

\* Lines 126-178: the request handed to fetch.
BuildOutbound(options, apiUrl, secretKey, filterEnv) ==
  LET filterByUser == shouldFilterByUser(filterEnv)
      requestBody == BuildRequestBody(options.method, options.body, options.userId, filterByUser)
  IN  [via |-> "platformRequest",
       base |-> IF TruthyStr(apiUrl) THEN apiUrl.val ELSE DefaultApiUrl,
       path |-> options.path,
       query |-> BuildQuery(options.method, options.params, options.userId, filterByUser),
       method |-> options.method,
       authorization |-> secretKey,
       body |-> IF TruthyJson(requestBody) THEN requestBody ELSE None]

\* organizationGet, lines 209-229: the request handed to fetch.
OrganizationOutbound(path, apiUrl, secretKey) ==
  [via |-> "organizationGet",
   base |-> IF TruthyStr(apiUrl) THEN apiUrl.val ELSE DefaultApiUrl,
   path |-> path,
   query |-> <<>>,
   method |-> "GET",
   authorization |-> secretKey,
   body |-> None]

\* A thrown Error, by its name and message.
Fault(name, message) == [name |-> name, message |-> message]

\* What fetch, or the read of the body, rejects with once the signal is aborted.
AbortError == Fault("AbortError", "The signal has been aborted")

\* What fetch rejects with for a GET request given a body.
BodyRefused == Fault("TypeError", "Request with GET/HEAD method cannot have body")

\* The faults of the transport: no connection, and a connection lost.
TransportFaults ==
  {Fault("TypeError", "error sending request"),
   Fault("TypeError", "error reading a body from connection")}

\* A catch block that rethrows the abort as well.
CatchFault_RethrowsAbort(error) == [result |-> None, fault |-> Some(error)]

\* fetch refuses a GET (or HEAD) request that carries a body: it rejects with a
\* TypeError and nothing is sent.
FetchRefuses(out) == out.method = "GET" /\ out.body.some

TimeoutResult == [data |-> JNull, status |-> 504, error |-> Some("Request timeout")]

\* A result whose data is null for a text that does not parse.
CompletedResult_NullOnGarbage(status, responseText) ==
  [data |-> IF responseText # "" /\ JsonParse(responseText).ok
            THEN JsonParse(responseText).value
            ELSE JNull,
   status |-> status,
   error |-> None]

\* Lines 182-192: the result for a response read in full.
CompletedResult(status, responseText) ==
  [data |-> IF responseText = "" THEN JNull
            ELSE IF JsonParse(responseText).ok THEN JsonParse(responseText).value
            ELSE JStr(responseText),
   status |-> status,
   error |-> None]

\* response.ok
ResponseOk(status) == status \in 200..299

\* organizationGet, lines 232-234: the result for a response that is not ok.
HttpErrorResult(status) ==
  [data |-> JNull, status |-> status, error |-> Some("HTTP " \o ToString(status))]

\* An organizationGet that reads the body whatever the status.
OnHeaders_ReadsBody(via, status) == None

\* What the call makes of the response once its headers are there: the result
\* it returns at once, if any.
OnHeaders(via, status) ==
  IF via = "organizationGet" /\ ~ResponseOk(status)
  THEN Some(HttpErrorResult(status))
  ELSE None

\* A platformRequest that rethrows the fault of a body that does not parse, as
\* organizationGet does.
OnBody_FaultOnGarbage(via, status, responseText) ==
  IF JsonParse(responseText).ok
  THEN [result |-> Some([data |-> JsonParse(responseText).value, status |-> status,
                         error |-> None]),
        fault |-> None]
  ELSE [result |-> None, fault |-> Some(Fault("SyntaxError", "Unexpected end of JSON input"))]

\* What the call makes of a body read in full: platformRequest returns
\* CompletedResult; organizationGet returns the value response.json() parsed,
\* and rethrows the SyntaxError of a text that does not parse.
OnBody(via, status, responseText) ==
  IF via = "organizationGet"
  THEN IF JsonParse(responseText).ok
       THEN [result |-> Some([data |-> JsonParse(responseText).value, status |-> status,
                              error |-> None]),
             fault |-> None]
       ELSE [result |-> None, fault |-> Some(Fault("SyntaxError", "Unexpected end of JSON input"))]
  ELSE [result |-> Some(CompletedResult(status, responseText)), fault |-> None]

UpstreamStatuses == {200, 204, 205, 404, 500}

UpstreamTexts == {"", "{\"id\":1}", "abc"}

\* Lines 193-201 (and 238-246): the catch block; an AbortError becomes the
\* timeout result, every other fault is rethrown.
CatchFault(error) ==
  IF error.name = "AbortError"
  THEN [result |-> Some(TimeoutResult), fault |-> None]
  ELSE [result |-> None, fault |-> Some(error)]

\* Whether the timer set at line 170 expires at the clock's reading.
TimerDue(clock) == clock * TickMs >= REQUEST_TIMEOUT_MS

NotPlatform == <<envVars, verifyVars, whVars, ccVars, corsVars>>

\* platformRequest(options) up to its first await: lines 126-178.
PlatformBegin(options) ==
  LET out == BuildOutbound(options, envApiUrl, envSecretKey, envFilterByUser)
  IN  /\ plOpts' = Some(options)
      /\ plOut' = Some(out)
      /\ plTimer' = "armed"
      /\ plAborted' = FALSE
      /\ plClock' = 0
      /\ plStatus' = None
      /\ plFetches' = 1
      /\ plText' = None
      /\ plResult' = None
      /\ plFault' = None
      /\ plPc' = "fetching"

\* organizationGet(path) up to its first await: lines 209-229.
OrganizationBegin(path) ==
  /\ plOpts' = Some([path |-> path, method |-> "GET", params |-> <<>>, body |-> None,
                     userId |-> None])
  /\ plOut' = Some(OrganizationOutbound(path, envApiUrl, envSecretKey))
  /\ plTimer' = "armed"
  /\ plAborted' = FALSE
  /\ plClock' = 0
  /\ plStatus' = None
  /\ plFetches' = 1
  /\ plText' = None
  /\ plResult' = None
  /\ plFault' = None
  /\ plPc' = "fetching"

\* Time passes while the call waits for the backend.
PlTick ==
  /\ plPc \in {"fetching", "reading"}
  /\ ~TimerDue(plClock)
  /\ plClock' = plClock + 1
  /\ UNCHANGED <<plPc, plOpts, plOut, plFetches, plText, plTimer, plAborted, plStatus, plResult, plFault, NotPlatform, rsVars>>

\* Line 170: the timer expires and aborts the controller.
PlTimerFires ==
  /\ plTimer = "armed"
  /\ TimerDue(plClock)
  /\ plTimer' = "fired"
  /\ plAborted' = TRUE
  /\ UNCHANGED <<plPc, plOpts, plOut, plFetches, plText, plClock, plStatus, plResult, plFault, NotPlatform, rsVars>>

\* Lines 193-198: the aborted fetch (or body read) rejects with an AbortError.
PlAborts ==
  /\ plPc \in {"fetching", "reading"}
  /\ plAborted
  /\ plResult' = CatchFault(AbortError).result
  /\ plFault' = CatchFault(AbortError).fault
  /\ plPc' = IF CatchFault(AbortError).fault.some THEN "thrown" ELSE "returned"
  /\ UNCHANGED <<plOpts, plOut, plFetches, plText, plTimer, plAborted, plClock, plStatus, NotPlatform, rsVars>>

\* Lines 173-179: the response (status and headers) arrives before the timer
\* expires; the timer is cleared.
PlHeadersArrive ==
  /\ plPc = "fetching"
  /\ ~plAborted
  /\ ~FetchRefuses(plOut.val)
  /\ ~TimerDue(plClock)
  /\ \E status \in UpstreamStatuses :
       /\ plStatus' = Some(status)
       /\ plResult' = OnHeaders(plOut.val.via, status)
       /\ plPc' = IF OnHeaders(plOut.val.via, status).some THEN "returned" ELSE "reading"
  /\ plTimer' = "cleared"
  /\ UNCHANGED <<plOpts, plOut, plFetches, plText, plAborted, plClock, plFault, NotPlatform, rsVars>>

\* A call that answers a failed fetch with another fetch.
PlFetchFails_Retries ==
  /\ plPc = "fetching"
  /\ ~plAborted
  /\ ~TimerDue(plClock)
  /\ plFetches < 3
  /\ plFetches' = plFetches + 1
  /\ UNCHANGED <<plPc, plOpts, plOut, plText, plTimer, plAborted, plClock, plStatus, plResult, plFault, NotPlatform, rsVars>>

\* Lines 193-200: fetch rejects with a fault other than an abort; it is rethrown.
PlFetchFails ==
  /\ plPc = "fetching"
  /\ ~plAborted
  /\ ~TimerDue(plClock)
  /\ LET error == IF FetchRefuses(plOut.val) THEN BodyRefused
                   ELSE Fault("TypeError", "error sending request")
     IN  /\ plResult' = CatchFault(error).result
         /\ plFault' = CatchFault(error).fault
         /\ plPc' = IF CatchFault(error).fault.some THEN "thrown" ELSE "returned"
  /\ plTimer' = "cleared"
  /\ UNCHANGED <<plOpts, plOut, plFetches, plText, plAborted, plClock, plStatus, NotPlatform, rsVars>>

\* Lines 182-192: the body has been read in full.
PlBodyArrives ==
  /\ plPc = "reading"
  /\ ~plAborted
  /\ \E responseText \in UpstreamTexts :
       LET read == OnBody(plOut.val.via, plStatus.val, responseText)
       IN  /\ plResult' = IF read.fault.some THEN CatchFault(read.fault.val).result
                           ELSE read.result
           /\ plFault' = IF read.fault.some THEN CatchFault(read.fault.val).fault ELSE None
           /\ plPc' = IF read.fault.some /\ CatchFault(read.fault.val).fault.some
                      THEN "thrown" ELSE "returned"
           /\ plText' = Some(responseText)
  /\ UNCHANGED <<plOpts, plOut, plFetches, plTimer, plAborted, plClock, plStatus, NotPlatform, rsVars>>

\* Lines 182, 193-200: reading the body fails with a fault other than an abort.
PlBodyFails ==
  /\ plPc = "reading"
  /\ ~plAborted
  /\ LET error == Fault("TypeError", "error reading a body from connection")
     IN  /\ plResult' = CatchFault(error).result
         /\ plFault' = CatchFault(error).fault
         /\ plPc' = IF CatchFault(error).fault.some THEN "thrown" ELSE "returned"
  /\ plTimer' = "cleared"
  /\ UNCHANGED <<plOpts, plOut, plFetches, plText, plAborted, plClock, plStatus, NotPlatform, rsVars>>

\* What the backend and the clock do to a call in flight.
PlatformSteps ==
  \/ PlTick
  \/ PlTimerFires
  \/ PlAborts
  \/ PlHeadersArrive
  \/ PlFetchFails
  \/ PlBodyArrives
  \/ PlBodyFails

PlatformReset ==
  /\ plPc' = "idle"
  /\ plOpts' = None
  /\ plOut' = None
  /\ plTimer' = "unset"
  /\ plAborted' = FALSE
  /\ plClock' = 0
  /\ plStatus' = None
  /\ plFetches' = 0
  /\ plText' = None
  /\ plResult' = None
  /\ plFault' = None

(***************************************************************************)
(* A direct caller of platformRequest.                                     *)
(***************************************************************************)
CallMethods == {"GET", "POST", "PATCH", "PUT", "DELETE"}

CallParams ==
  {<<>>,
   <<<<"q", Some("a")>>, <<"skip", None>>>>,
   <<<<"external_user_id", Some("evil")>>, <<"q", Some("a")>>>>}

CallBodies ==
  {None, Some(JObj([x |-> JNum(1)])),
   Some(JObj([x |-> JNum(1), external_user_id |-> JStr("evil")]))}

CallUserIds == {None, Some(""), Some("u1")}

PlCall ==
  /\ plPc = "idle"
  /\ \E method \in CallMethods, params \in CallParams, body \in CallBodies,
        userId \in CallUserIds :
       PlatformBegin([path |-> "/api/v1/alerts/", method |-> method, params |-> params,
                      body |-> body, userId |-> userId])
  /\ UNCHANGED <<NotPlatform, rsVars>>

\* getFullMeeting, getGazetteEdition and getGazetteAlertMatches: the paths
\* they hand to organizationGet.
OrganizationPaths ==
  {"/api/v1/meetings/7/full/", "/api/v1/gazette-editions/3/",
   "/api/v1/gazette-editions/3/alert-matches/"}

PlOrgCall ==
  /\ plPc = "idle"
  /\ \E path \in OrganizationPaths : OrganizationBegin(path)
  /\ UNCHANGED <<NotPlatform, rsVars>>

\* The caller has its result, or the fault; it may call again.
PlDone ==
  /\ plPc \in {"returned", "thrown"}
  /\ rsPc = "idle"
  /\ PlatformReset
  /\ UNCHANGED <<NotPlatform, rsVars>>

PlatformInit ==
  /\ envDevelopment = FALSE
  /\ envWebhookSecret = None
  /\ envSecretKey \in {None, Some("key")}
  /\ envFilterByUser \in {None, Some("true"), Some("false")}
  /\ envApiUrl \in {None, Some("https://backend.test")}

(***************************************************************************)
(* resource-handler.ts: serveResource                                      *)
(***************************************************************************)
Operations == {"list", "get", "create", "update", "delete"}

\* config.operations: unset, 'all', 'read' or an explicit list.
OperationsConfigs ==
  {[kind |-> "unset"], [kind |-> "all"], [kind |-> "read"]}
  \cup {[kind |-> "list", ops |-> S] : S \in SUBSET Operations}

getEnabledOperations(operations) ==
  CASE operations.kind \in {"unset", "all"} -> Operations
    [] operations.kind = "read" -> {"list", "get"}
    [] operations.kind = "list" -> operations.ops

\* The override of an operation is taken whether the operation is enabled or not.
MergeHandlers_OverrideAlways(enabledOps, customHandlers) ==
  [op \in Operations |->
     IF op \in customHandlers THEN "custom"
     ELSE IF op \in enabledOps THEN "default"
     ELSE "none"]

\* Lines 693-699: for each operation "custom", "default" or "none" (undefined).
MergeHandlers(enabledOps, customHandlers) ==
  [op \in Operations |->
     IF op \in enabledOps
     THEN (IF op \in customHandlers THEN "custom" ELSE "default")
     ELSE "none"]

\* pathname.split('/') of the paths the model uses.
SplitPath(pathname) ==
  CASE pathname = "/" -> <<"", "">>
    [] pathname = "/alerts" -> <<"", "alerts">>
    [] pathname = "/alerts/" -> <<"", "alerts", "">>
    [] pathname = "/alerts/42" -> <<"", "alerts", "42">>
    [] pathname = "/alerts/42/" -> <<"", "alerts", "42", "">>

\* The last element of the split, empty or not.
extractResourceId_LastRaw(pathname) ==
  LET pathParts == SplitPath(pathname)
  IN  IF Len(SelectSeq(pathParts, LAMBDA part : part # "")) >= 2
      THEN Some(pathParts[Len(pathParts)])
      ELSE None

extractResourceId(pathname) ==
  LET pathParts == SelectSeq(SplitPath(pathname), LAMBDA part : part # "")
  IN  IF Len(pathParts) >= 2 THEN Some(pathParts[Len(pathParts)]) ELSE None

\* paramsToObject: obj[key] = value for each entry in turn; the result's
\* Object.entries, every value present.
RECURSIVE paramsToObject(_)
paramsToObject(params) ==
  IF params = <<>> THEN <<>>
  ELSE LET init == paramsToObject(SubSeq(params, 1, Len(params) - 1))
           last == params[Len(params)]
       IN  IF \E i \in 1..Len(init) : init[i][1] = last[1]
           THEN [i \in 1..Len(init) |->
                   IF init[i][1] = last[1] THEN <<last[1], Some(last[2])>> ELSE init[i]]
           ELSE Append(init, <<last[1], Some(last[2])>>)

\* auth.ts verifyAuth: the AuthResult, "throws" when the promise rejects.
verifyAuth(authHeader, claims) ==
  IF ~TruthyStr(authHeader)
  THEN [throws |-> FALSE, user |-> None, error |-> Some("Missing authorization header")]
  ELSE IF claims.throws
  THEN [throws |-> TRUE, user |-> None, error |-> None]
  ELSE IF claims.error.some \/ ~TruthyStr(claims.sub)
  THEN [throws |-> FALSE, user |-> None, error |-> Some("Invalid JWT")]
  ELSE [throws |-> FALSE, user |-> claims.sub, error |-> None]

\* Line 719: authError || !user
AuthFails_Never(result) == FALSE

AuthFails(result) == TruthyStr(result.error) \/ ~result.user.some

\* Lines 753-781: the operation whose handler answers, or "none".
Route_IgnoresTable(method, hasId, handlers) ==
  CASE method = "GET" -> IF hasId THEN "get" ELSE "list"
    [] method = "POST" -> IF ~hasId THEN "create" ELSE "none"
    [] method \in {"PATCH", "PUT"} -> IF hasId THEN "update" ELSE "none"
    [] method = "DELETE" -> IF hasId THEN "delete" ELSE "none"
    [] OTHER -> "none"

Route_PostAnywhere(method, hasId, handlers) ==
  CASE method = "GET" ->
         IF hasId /\ handlers["get"] # "none" THEN "get"
         ELSE IF ~hasId /\ handlers["list"] # "none" THEN "list"
         ELSE "none"
    [] method = "POST" ->
         IF handlers["create"] # "none" THEN "create" ELSE "none"
    [] method \in {"PATCH", "PUT"} ->
         IF hasId /\ handlers["update"] # "none" THEN "update" ELSE "none"
    [] method = "DELETE" ->
         IF hasId /\ handlers["delete"] # "none" THEN "delete" ELSE "none"
    [] OTHER -> "none"

Route(method, hasId, handlers) ==
  CASE method = "GET" ->
         IF hasId /\ handlers["get"] # "none" THEN "get"
         ELSE IF ~hasId /\ handlers["list"] # "none" THEN "list"
         ELSE "none"
    [] method = "POST" ->
         IF ~hasId /\ handlers["create"] # "none" THEN "create" ELSE "none"
    [] method \in {"PATCH", "PUT"} ->
         IF hasId /\ handlers["update"] # "none" THEN "update" ELSE "none"
    [] method = "DELETE" ->
         IF hasId /\ handlers["delete"] # "none" THEN "delete" ELSE "none"
    [] OTHER -> "none"

\* `${platformPath}${ctx.resourceId}/`
ItemPath(platformPath, resourceId) ==
  platformPath \o (IF resourceId.some THEN resourceId.val ELSE "null") \o "/"

\* A default handler up to its first await: the response it returns at once,
\* or the options of its platformRequest.
DefaultHandlerStart_NoBodyCheck(op, ctx, platformPath, isDevelopment) ==
  [resp |-> None,
   call |-> Some([path |-> IF op \in {"list", "create"} THEN platformPath
                           ELSE ItemPath(platformPath, ctx.resourceId),
                  method |-> CASE op \in {"list", "get"} -> "GET"
                               [] op = "create" -> "POST"
                               [] op = "update" -> "PATCH"
                               [] op = "delete" -> "DELETE",
                  params |-> IF op = "list" THEN paramsToObject(ctx.params) ELSE <<>>,
                  body |-> IF op \in {"create", "update"} THEN ctx.body ELSE None,
                  userId |-> Some(ctx.userId)])]

\* An update handler that issues its outbound call with method PUT.
DefaultHandlerStart_UpdateIsPut(op, ctx, platformPath, isDevelopment) ==
  IF op \in {"create", "update"} /\ ~TruthyJson(ctx.body)
  THEN [resp |-> Some(badRequestResponse("Request body is required", isDevelopment)),
        call |-> None]
  ELSE [resp |-> None,
        call |-> Some([path |-> IF op \in {"list", "create"} THEN platformPath
                                ELSE ItemPath(platformPath, ctx.resourceId),
                       method |-> CASE op \in {"list", "get"} -> "GET"
                                    [] op = "create" -> "POST"
                                    [] op = "update" -> "PUT"
                                    [] op = "delete" -> "DELETE",
                       params |-> IF op = "list" THEN paramsToObject(ctx.params) ELSE <<>>,
                       body |-> IF op \in {"create", "update"} THEN ctx.body ELSE None,
                       userId |-> Some(ctx.userId)])]

DefaultHandlerStart(op, ctx, platformPath, isDevelopment) ==
  IF op \in {"create", "update"} /\ ~TruthyJson(ctx.body)
  THEN [resp |-> Some(badRequestResponse("Request body is required", isDevelopment)),
        call |-> None]
  ELSE [resp |-> None,
        call |-> Some([path |-> IF op \in {"list", "create"} THEN platformPath
                                ELSE ItemPath(platformPath, ctx.resourceId),
                       method |-> CASE op \in {"list", "get"} -> "GET"
                                    [] op = "create" -> "POST"
                                    [] op = "update" -> "PATCH"
                                    [] op = "delete" -> "DELETE",
                       params |-> IF op = "list" THEN paramsToObject(ctx.params) ELSE <<>>,
                       body |-> IF op \in {"create", "update"} THEN ctx.body ELSE None,
                       userId |-> Some(ctx.userId)])]

\* new Response(body, {status}) throws a TypeError for a body with a null-body
\* status; jsonResponse always passes a body (the JSON text of data).
ResponseRefuses(status) == status \in {101, 103, 204, 205, 304}

\* A default handler after its platformRequest returned: the response, or the
\* fault of building it.
DefaultHandlerFinish(op, result) ==
  IF op = "delete" /\ result.status = 204
  THEN [resp |-> Some(noContentResponse), fault |-> None]
  ELSE IF ResponseRefuses(result.status)
       THEN [resp |-> None,
             fault |-> Some("Response with null body status cannot have body")]
       ELSE [resp |-> Some(jsonResponse(IF op = "delete" THEN JNull ELSE result.data,
                                        result.status)),
             fault |-> None]

ResourceMethods == {"GET", "POST", "PATCH", "PUT", "DELETE", "HEAD", "OPTIONS"}

ResourcePaths == {"/", "/alerts/", "/alerts/42", "/alerts/42/"}

\* The text of the request body; None when the request has none.
ResourceBodies(method) ==
  IF method \in {"POST", "PATCH", "PUT"}
  THEN {None, Some("abc"), Some("null"), Some("{\"x\":1}"),
        Some("{\"x\":1,\"external_user_id\":\"evil\"}")}
  ELSE {None}

\* The entries of url.searchParams.
ResourceQueries(method) ==
  IF method = "GET"
  THEN {<<>>, <<<<"q", "a">>, <<"external_user_id", "evil">>, <<"q", "b">>>>}
  ELSE {<<>>}

\* The Authorization header of the request.
AuthHeaders == {None, Some("Bearer tok")}

\* What supabase.auth.getClaims may answer for the token.
ClaimsOutcomes ==
  {[throws |-> FALSE, error |-> None, sub |-> Some("u1")],
   [throws |-> FALSE, error |-> Some("invalid JWT"), sub |-> None],
   [throws |-> FALSE, error |-> None, sub |-> None],
   [throws |-> TRUE, error |-> None, sub |-> None]}

\* Responses a caller-supplied handler may return.
CustomResponses == {successResponse([custom |-> TRUE])}

NotResource == <<envVars, verifyVars, whVars, ccVars, corsVars>>

\* serveResource(config): lines 688-699.
ResourceInit ==
  /\ \E operations \in OperationsConfigs, customHandlers \in {{}, {"create"}, {"list", "delete"}} :
       rs = [platformPath |-> "/api/v1/alerts/",
             enabledOps |-> getEnabledOperations(operations),
             customHandlers |-> customHandlers,
             handlers |-> MergeHandlers(getEnabledOperations(operations), customHandlers)]
  /\ rsPc = "idle"
  /\ rsReq = None
  /\ rsAuth = None
  /\ rsCtx = None
  /\ rsFetches = 0
  /\ rsLog = <<>>
  /\ rsCalls = <<>>
  /\ rsResp = None

\* An inbound request reaches the handler.
RsReceive ==
  /\ rsPc = "idle"
  /\ \E method \in ResourceMethods, pathname \in ResourcePaths, authHeader \in AuthHeaders :
       \E body \in ResourceBodies(method), query \in ResourceQueries(method) :
         rsReq' = Some([method |-> method, pathname |-> pathname, authorization |-> authHeader,
                        body |-> body, query |-> query])
  /\ rsPc' = "received"
  /\ UNCHANGED <<rs, rsAuth, rsCtx, rsFetches, rsLog, rsCalls, rsResp, plVars, NotResource>>

\* A router that verifies the identity without checking the configuration.
RsBegin_SkipsConfigCheck ==
  /\ rsPc = "received"
  /\ IF rsReq.val.method = "OPTIONS"
     THEN /\ rsLog' = rsLog \o <<"preflight">>
          /\ rsResp' = Some(handleCorsPrelight)
          /\ rsPc' = "responded"
     ELSE /\ rsLog' = rsLog \o <<"verifyAuth">>
          /\ rsResp' = rsResp
          /\ rsPc' = "auth"
  /\ UNCHANGED <<rs, rsReq, rsAuth, rsCtx, rsFetches, rsCalls, plVars, NotResource>>

\* Lines 702-718: preflight and configuration check, up to the await of verifyAuth.
RsBegin ==
  /\ rsPc = "received"
  /\ IF rsReq.val.method = "OPTIONS"
     THEN /\ rsLog' = rsLog \o <<"preflight">>
          /\ rsResp' = Some(handleCorsPrelight)
          /\ rsPc' = "responded"
     ELSE IF ~isPlatformConfigured(envSecretKey)
     THEN /\ rsLog' = rsLog \o <<"configCheck">>
          /\ rsResp' = Some(errorResponse("Platform API is not configured", 500, None,
                                          envDevelopment))
          /\ rsPc' = "responded"
     ELSE /\ rsLog' = rsLog \o <<"configCheck", "verifyAuth">>
          /\ rsResp' = rsResp
          /\ rsPc' = "auth"
  /\ UNCHANGED <<rs, rsReq, rsAuth, rsCtx, rsFetches, rsCalls, plVars, NotResource>>

\* Lines 740-783: the context is built and the request is routed; the handler
\* chosen runs to its first await.
Dispatch(userId, resourceId, body, log) ==
  LET ctx == [userId |-> userId, resourceId |-> resourceId, body |-> body,
              params |-> rsReq.val.query]
      op == Route(rsReq.val.method, resourceId.some, rs.handlers)
      start == DefaultHandlerStart(op, ctx, rs.platformPath, envDevelopment)
  IN  /\ rsCtx' = Some(ctx)
      /\ rsLog' = log \o <<"dispatch">>
      /\ IF op = "none"
         THEN /\ rsCalls' = rsCalls
              /\ rsResp' = Some(methodNotAllowedResponse(envDevelopment))
              /\ rsPc' = "responded"
              /\ UNCHANGED <<rsFetches, plVars>>
         ELSE IF rs.handlers[op] = "custom"
         THEN /\ rsCalls' = Append(rsCalls, [op |-> op, by |-> "custom"])
              /\ rsResp' = rsResp
              /\ rsPc' = "custom"
              /\ UNCHANGED <<rsFetches, plVars>>
         ELSE /\ rsCalls' = Append(rsCalls, [op |-> op, by |-> "default"])
              /\ IF start.call.some
                 THEN /\ PlatformBegin(start.call.val)
                      /\ rsFetches' = rsFetches + 1
                      /\ rsResp' = rsResp
                      /\ rsPc' = "proxy"
                 ELSE /\ rsResp' = start.resp
                      /\ rsPc' = "responded"
                      /\ UNCHANGED <<rsFetches, plVars>>

\* Lines 718-734: verifyAuth settles; without a body to read the request is
\* routed at once.
RsAuthResolves ==
  /\ rsPc = "auth"
  /\ \E claims \in ClaimsOutcomes :
      LET result == verifyAuth(rsReq.val.authorization, claims) IN
       /\ rsAuth' = Some(result)
       /\ IF result.throws
          THEN /\ rsResp' = Some(serverErrorResponse(Some("verifyAuth failed"), envDevelopment))
               /\ rsPc' = "responded"
               /\ rsLog' = rsLog
               /\ UNCHANGED <<rsCtx, rsFetches, rsCalls, plVars>>
          ELSE IF AuthFails(result)
          THEN /\ rsResp' = Some(unauthorizedResponse(envDevelopment))
               /\ rsPc' = "responded"
               /\ rsLog' = rsLog
               /\ UNCHANGED <<rsCtx, rsFetches, rsCalls, plVars>>
          ELSE IF rsReq.val.method \in {"POST", "PATCH", "PUT"}
          THEN /\ rsLog' = rsLog \o <<"extractResourceId", "parseBody">>
               /\ rsPc' = "json"
               /\ UNCHANGED <<rsResp, rsCtx, rsFetches, rsCalls, plVars>>
          ELSE IF ~result.user.some
          THEN /\ rsResp' = Some(serverErrorResponse(
                                   Some("Cannot read properties of null (reading 'id')"),
                                   envDevelopment))
               /\ rsPc' = "responded"
               /\ rsLog' = rsLog \o <<"extractResourceId">>
               /\ UNCHANGED <<rsCtx, rsFetches, rsCalls, plVars>>
          ELSE Dispatch(result.user.val, extractResourceId(rsReq.val.pathname), None,
                        rsLog \o <<"extractResourceId">>)
  /\ UNCHANGED <<rs, rsReq, NotResource>>

\* req.json() of a body text: the parsed value, null for the JSON null and
\* for every failure.
ReadJson(body) ==
  IF body.some /\ JsonParse(body.val).ok /\ JsonParse(body.val).value # JNull
  THEN Some(JsonParse(body.val).value)
  ELSE None

\* A router for which a body that cannot be read is an error of the request.
RsBodyParsed_ParseFailureIs400 ==
  /\ rsPc = "json"
  /\ IF rsReq.val.body = None \/ ~JsonParse(rsReq.val.body.val).ok
     THEN /\ rsResp' = Some(badRequestResponse("Invalid JSON payload", envDevelopment))
          /\ rsPc' = "responded"
          /\ UNCHANGED <<rsCtx, rsFetches, rsLog, rsCalls, plVars>>
     ELSE Dispatch(rsAuth.val.user.val, extractResourceId(rsReq.val.pathname),
                   ReadJson(rsReq.val.body), rsLog)
  /\ UNCHANGED <<rs, rsReq, rsAuth, NotResource>>

\* Lines 729-783: req.json() settles and the request is routed.
RsBodyParsed ==
  /\ rsPc = "json"
  /\ IF ~rsAuth.val.user.some
     THEN /\ rsResp' = Some(serverErrorResponse(
                              Some("Cannot read properties of null (reading 'id')"),
                              envDevelopment))
          /\ rsPc' = "responded"
          /\ UNCHANGED <<rsCtx, rsFetches, rsLog, rsCalls, plVars>>
     ELSE Dispatch(rsAuth.val.user.val, extractResourceId(rsReq.val.pathname),
                   ReadJson(rsReq.val.body), rsLog)
  /\ UNCHANGED <<rs, rsReq, rsAuth, NotResource>>

\* The platformRequest of a default handler returned; the handler answers.
RsProxyReturns ==
  /\ rsPc = "proxy"
  /\ plPc = "returned"
  /\ LET fin == DefaultHandlerFinish(rsCalls[Len(rsCalls)].op, plResult.val)
     IN  rsResp' = IF fin.fault.some
                   THEN Some(serverErrorResponse(fin.fault, envDevelopment))
                   ELSE fin.resp
  /\ rsLog' = Append(rsLog,
                     IF DefaultHandlerFinish(rsCalls[Len(rsCalls)].op, plResult.val).fault.some
                     THEN "handlerThrew" ELSE "proxyReturned")
  /\ rsPc' = "responded"
  /\ PlatformReset
  /\ UNCHANGED <<rs, rsReq, rsAuth, rsCtx, rsFetches, rsCalls, NotResource>>

\* A handler that answers a transport fault with 502.
RsProxyThrows_BadGateway ==
  /\ rsPc = "proxy"
  /\ plPc = "thrown"
  /\ rsResp' = Some(errorResponse("Bad gateway", 502, None, envDevelopment))
  /\ rsLog' = Append(rsLog, "proxyThrew")
  /\ rsPc' = "responded"
  /\ PlatformReset
  /\ UNCHANGED <<rs, rsReq, rsAuth, rsCtx, rsFetches, rsCalls, NotResource>>

\* The platformRequest of a default handler threw; the outer catch answers.
RsProxyThrows ==
  /\ rsPc = "proxy"
  /\ plPc = "thrown"
  /\ rsResp' = Some(serverErrorResponse(Some(plFault.val.message), envDevelopment))
  /\ rsLog' = Append(rsLog, "proxyThrew")
  /\ rsPc' = "responded"
  /\ PlatformReset
  /\ UNCHANGED <<rs, rsReq, rsAuth, rsCtx, rsFetches, rsCalls, NotResource>>

\* The caller-supplied handler fetches organization data (getFullMeeting,
\* getGazetteEdition, getGazetteAlertMatches) and awaits it.
RsCustomCalls ==
  /\ rsPc = "custom"
  /\ plPc \in {"idle", "returned"}
  /\ rsFetches < MaxOverrideCalls
  /\ \E path \in {"/api/v1/meetings/7/full/"} : OrganizationBegin(path)
  /\ rsFetches' = rsFetches + 1
  /\ rsLog' = Append(rsLog, "customCalled")
  /\ UNCHANGED <<rs, rsPc, rsReq, rsAuth, rsCtx, rsCalls, rsResp, NotResource>>

\* The caller-supplied handler returns its response.
RsCustomReturns ==
  /\ rsPc = "custom"
  /\ plPc \in {"idle", "returned"}
  /\ \E resp \in CustomResponses : rsResp' = Some(resp)
  /\ rsLog' = Append(rsLog, "customReturned")
  /\ rsPc' = "responded"
  /\ PlatformReset
  /\ UNCHANGED <<rs, rsReq, rsAuth, rsCtx, rsFetches, rsCalls, NotResource>>

\* The caller-supplied handler throws; the outer catch answers.
RsCustomThrows ==
  /\ rsPc = "custom"
  /\ plPc \in {"idle", "returned", "thrown"}
  /\ rsResp' = Some(serverErrorResponse(Some(IF plPc = "thrown" THEN plFault.val.message ELSE "boom"),
                                        envDevelopment))
  /\ rsLog' = Append(rsLog, "customThrew")
  /\ rsPc' = "responded"
  /\ PlatformReset
  /\ UNCHANGED <<rs, rsReq, rsAuth, rsCtx, rsFetches, rsCalls, NotResource>>

\* The response has been sent; the handler is ready for the next request.
RsFinish ==
  /\ rsPc = "responded"
  /\ rsPc' = "idle"
  /\ rsReq' = None
  /\ rsAuth' = None
  /\ rsCtx' = None
  /\ rsFetches' = 0
  /\ rsLog' = <<>>
  /\ rsCalls' = <<>>
  /\ rsResp' = None
  /\ UNCHANGED <<rs, plVars, NotResource>>

(***************************************************************************)
(* Specifications.                                                         *)
(***************************************************************************)
EnvUnset ==
  /\ envDevelopment = FALSE
  /\ envWebhookSecret = None
  /\ envSecretKey = None
  /\ envFilterByUser = None
  /\ envApiUrl = None

WebhookUnused == wh = None /\ WebhookIdle

PlatformIdle ==
  /\ plPc = "idle"
  /\ plOpts = None
  /\ plOut = None
  /\ plTimer = "unset"
  /\ plAborted = FALSE
  /\ plClock = 0
  /\ plStatus = None
  /\ plFetches = 0
  /\ plText = None
  /\ plResult = None
  /\ plFault = None

ResourceIdle ==
  /\ rsPc = "idle"
  /\ rsReq = None
  /\ rsAuth = None
  /\ rsCtx = None
  /\ rsFetches = 0
  /\ rsLog = <<>>
  /\ rsCalls = <<>>
  /\ rsResp = None

ResourceUnused == rs = None /\ ResourceIdle

\* No requests in flight side by side, and cors.ts as loaded, unused.
ConcurrentUnused == inflight = <<>>

CorsUnused == cachedDefaultHandler = None /\ envAllowedOrigins = None /\ corsReturned = <<>>

OthersUnused == ConcurrentUnused /\ CorsUnused

VerifyNext == VerifyCall \/ VerifyAgain

\* The verifier alone, on drawn inputs.
InitVerify ==
  VerifyInit /\ EnvUnset /\ WebhookUnused /\ PlatformIdle /\ ResourceUnused /\ OthersUnused

SpecVerify == InitVerify /\ [][VerifyNext]_vars

\* The webhook router serving one request after another.
InitWebhook ==
  /\ WebhookInit /\ VerifyIdle /\ PlatformIdle /\ ResourceUnused /\ OthersUnused
  /\ envSecretKey = None /\ envFilterByUser = None /\ envApiUrl = None

SpecWebhook == InitWebhook /\ [][WebhookNext]_vars

(***************************************************************************)
(* Requests of the CRUD router handled side by side.  Each has the locals  *)
(* of its handler (the context) and of its platformRequest (the outbound   *)
(* request, the AbortController, the timer); the module has no variable    *)
(* they share.                                                             *)
(***************************************************************************)
Slots == 1..MaxInflight

\* The locals of a request that has not arrived.
IdleSlot ==
  [pc |-> "idle", op |-> "none", ctx |-> None, out |-> None, aborted |-> FALSE,
   clock |-> 0, status |-> None, result |-> None, fault |-> None, resp |-> None]

\* Authenticated requests, by the operation they are routed to and their context.
ConcurrentRequests ==
  {[op |-> "get",
    ctx |-> [userId |-> "u1", resourceId |-> Some("42"), body |-> None, params |-> <<>>]],
   [op |-> "list",
    ctx |-> [userId |-> "u2", resourceId |-> None, body |-> None,
             params |-> <<<<"q", "a">>>>]],
   [op |-> "create",
    ctx |-> [userId |-> "u3", resourceId |-> None, body |-> Some(JObj([x |-> JNum(1)])),
             params |-> <<>>]]}

ConcurrentPath == "/api/v1/alerts/"

\* Lines 741-781 and 126-178: the request is routed to its default handler,
\* which builds its outbound request and arms its timer.
CcReceive ==
  /\ \E i \in Slots, r \in ConcurrentRequests :
       /\ inflight[i].pc = "idle"
       /\ inflight' = [inflight EXCEPT ![i] =
            [IdleSlot EXCEPT
               !.pc = "fetching", !.op = r.op, !.ctx = Some(r.ctx),
               !.out = Some(BuildOutbound(
                              DefaultHandlerStart(r.op, r.ctx, ConcurrentPath,
                                                  envDevelopment).call.val,
                              envApiUrl, envSecretKey, envFilterByUser))]]
  /\ UNCHANGED <<envVars, verifyVars, whVars, plVars, rsVars, corsVars>>

\* Time passes for a call that waits for its response.
CcTick ==
  /\ \E i \in Slots :
       /\ inflight[i].pc = "fetching"
       /\ ~TimerDue(inflight[i].clock)
       /\ inflight' = [inflight EXCEPT ![i].clock = @ + 1]
  /\ UNCHANGED <<envVars, verifyVars, whVars, plVars, rsVars, corsVars>>

\* One timer aborting the controller of every call in flight.
CcTimerFires_SharedController ==
  /\ \E i \in Slots :
       /\ inflight[i].pc = "fetching"
       /\ ~inflight[i].aborted
       /\ TimerDue(inflight[i].clock)
       /\ inflight' = [j \in Slots |->
                         IF inflight[j].pc = "fetching"
                         THEN [inflight[j] EXCEPT !.aborted = TRUE]
                         ELSE inflight[j]]
  /\ UNCHANGED <<envVars, verifyVars, whVars, plVars, rsVars, corsVars>>

\* Lines 169-170: the timer of a call expires and aborts the controller of
\* that call.
CcTimerFires ==
  /\ \E i \in Slots :
       /\ inflight[i].pc = "fetching"
       /\ ~inflight[i].aborted
       /\ TimerDue(inflight[i].clock)
       /\ inflight' = [inflight EXCEPT ![i].aborted = TRUE]
  /\ UNCHANGED <<envVars, verifyVars, whVars, plVars, rsVars, corsVars>>

\* Lines 193-198: the fetch of an aborted call rejects.
CcAborts ==
  /\ \E i \in Slots :
       /\ inflight[i].pc = "fetching"
       /\ inflight[i].aborted
       /\ inflight' = [inflight EXCEPT
            ![i].result = CatchFault(AbortError).result,
            ![i].fault = CatchFault(AbortError).fault,
            ![i].pc = IF CatchFault(AbortError).fault.some THEN "thrown" ELSE "returned"]
  /\ UNCHANGED <<envVars, verifyVars, whVars, plVars, rsVars, corsVars>>

\* Lines 173-179: the response of a call arrives in time; its timer is cleared.
CcHeadersArrive ==
  /\ \E i \in Slots, status \in {200, 500} :
       /\ inflight[i].pc = "fetching"
       /\ ~inflight[i].aborted
       /\ ~TimerDue(inflight[i].clock)
       /\ inflight' = [inflight EXCEPT
            ![i].status = Some(status), ![i].clock = 0, ![i].pc = "reading"]
  /\ UNCHANGED <<envVars, verifyVars, whVars, plVars, rsVars, corsVars>>

\* Lines 193-200: the fetch of a call fails; the fault is rethrown.
CcFetchFails ==
  /\ \E i \in Slots :
       /\ inflight[i].pc = "fetching"
       /\ ~inflight[i].aborted
       /\ ~TimerDue(inflight[i].clock)
       /\ LET caught == CatchFault(Fault("TypeError", "error sending request"))
          IN  inflight' = [inflight EXCEPT
                ![i].result = caught.result, ![i].fault = caught.fault, ![i].clock = 0,
                ![i].pc = IF caught.fault.some THEN "thrown" ELSE "returned"]
  /\ UNCHANGED <<envVars, verifyVars, whVars, plVars, rsVars, corsVars>>

\* Lines 182-192: the body of a response has been read.
CcBodyArrives ==
  /\ \E i \in Slots :
       /\ inflight[i].pc = "reading"
       /\ inflight' = [inflight EXCEPT
            ![i].result = OnBody("platformRequest", inflight[i].status.val,
                                 "{\"id\":1}").result,
            ![i].pc = "returned"]
  /\ UNCHANGED <<envVars, verifyVars, whVars, plVars, rsVars, corsVars>>

\* The default handler answers with what its call returned, or the router's
\* catch answers the fault; the response goes out and the locals are gone.
CcRespond ==
  /\ \E i \in Slots :
       /\ inflight[i].pc \in {"returned", "thrown"}
       /\ LET fin == DefaultHandlerFinish(inflight[i].op, inflight[i].result.val)
          IN  inflight' = [inflight EXCEPT
                ![i].resp = IF inflight[i].pc = "thrown"
                            THEN Some(serverErrorResponse(Some(inflight[i].fault.val.message),
                                                          envDevelopment))
                            ELSE IF fin.fault.some
                            THEN Some(serverErrorResponse(fin.fault, envDevelopment))
                            ELSE fin.resp,
                ![i].pc = "responded"]
  /\ UNCHANGED <<envVars, verifyVars, whVars, plVars, rsVars, corsVars>>

CcFinish ==
  /\ \E i \in Slots :
       /\ inflight[i].pc = "responded"
       /\ inflight' = [inflight EXCEPT ![i] = IdleSlot]
  /\ UNCHANGED <<envVars, verifyVars, whVars, plVars, rsVars, corsVars>>

InitConcurrent ==
  /\ inflight = [i \in Slots |-> IdleSlot]
  /\ envDevelopment = FALSE
  /\ envWebhookSecret = None
  /\ envSecretKey = Some("key")
  /\ envFilterByUser = None
  /\ envApiUrl = None
  /\ VerifyIdle /\ WebhookUnused /\ PlatformIdle /\ ResourceUnused /\ CorsUnused

ConcurrentNext ==
  \/ CcReceive
  \/ CcTick
  \/ CcTimerFires
  \/ CcAborts
  \/ CcHeadersArrive
  \/ CcFetchFails
  \/ CcBodyArrives
  \/ CcRespond
  \/ CcFinish

SpecConcurrent == InitConcurrent /\ [][ConcurrentNext]_vars

(***************************************************************************)
(* cors.ts: getDefaultCorsHandler and its cache.  A handler is given by    *)
(* the origins createCorsHandler was called with.                          *)
(***************************************************************************)
\* Values of HILLMONITOR_ALLOWED_ORIGINS.
AllowedOriginsValues ==
  {None, Some(""), Some(" , "), Some("https://a.test"), Some("https://b.test"),
   Some("https://a.test, https://b.test")}

\* originsEnv.split(',').map((o) => o.trim()).filter(Boolean)
ParseOrigins(originsEnv) ==
  CASE originsEnv = "" -> <<>>
    [] originsEnv = " , " -> <<>>
    [] originsEnv = "https://a.test" -> <<"https://a.test">>
    [] originsEnv = "https://b.test" -> <<"https://b.test">>
    [] originsEnv = "https://a.test, https://b.test" -> <<"https://a.test", "https://b.test">>

\* getDefaultCorsHandler reading the environment at every call.
getDefaultCorsHandler_NoCache(cached, originsEnv) ==
  IF ~TruthyStr(originsEnv) \/ ParseOrigins(originsEnv.val) = <<>>
  THEN [returns |-> None, cached |-> None]
  ELSE [returns |-> Some(ParseOrigins(originsEnv.val)),
        cached |-> Some(ParseOrigins(originsEnv.val))]

\* Lines 119-136: what the call returns (None for undefined) and the cache
\* it leaves.
getDefaultCorsHandler(cached, originsEnv) ==
  IF cached.some THEN [returns |-> cached, cached |-> cached]
  ELSE IF ~TruthyStr(originsEnv) THEN [returns |-> None, cached |-> cached]
  ELSE IF Len(ParseOrigins(originsEnv.val)) = 0 THEN [returns |-> None, cached |-> cached]
  ELSE [returns |-> Some(ParseOrigins(originsEnv.val)),
        cached |-> Some(ParseOrigins(originsEnv.val))]

\* A serveWebhook without a cors option calls getDefaultCorsHandler.
CorsGetDefault ==
  /\ Len(corsReturned) < MaxCorsCalls
  /\ LET call == getDefaultCorsHandler(cachedDefaultHandler, envAllowedOrigins)
     IN  /\ corsReturned' = Append(corsReturned, call.returns)
         /\ cachedDefaultHandler' = call.cached
  /\ UNCHANGED <<envAllowedOrigins, envVars, verifyVars, whVars, plVars, rsVars, ccVars>>

\* HILLMONITOR_ALLOWED_ORIGINS is set to another value, or unset.
EnvSetAllowedOrigins ==
  /\ \E value \in AllowedOriginsValues :
       value # envAllowedOrigins /\ envAllowedOrigins' = value
  /\ UNCHANGED <<cachedDefaultHandler, corsReturned, envVars, verifyVars, whVars, plVars,
                 rsVars, ccVars>>

InitCors ==
  /\ cachedDefaultHandler = None
  /\ corsReturned = <<>>
  /\ envAllowedOrigins \in AllowedOriginsValues
  /\ EnvUnset /\ VerifyIdle /\ WebhookUnused /\ PlatformIdle /\ ResourceUnused
  /\ ConcurrentUnused

CorsNext == CorsGetDefault \/ EnvSetAllowedOrigins

SpecCors == InitCors /\ [][CorsNext]_vars

\* Deno.env.set('HILLMONITOR_WEBHOOK_SECRET', ...) or Deno.env.delete between
\* two inbound requests.
EnvSetWebhookSecret ==
  /\ whPc = "idle"
  /\ \E value \in {None, Some(""), Some("t")} :
       value # envWebhookSecret /\ envWebhookSecret' = value
  /\ UNCHANGED <<envDevelopment, envSecretKey, envFilterByUser, envApiUrl,
                 verifyVars, whVars, plVars, rsVars, ccVars, corsVars>>

ReconfiguredWebhookNext == WebhookNext \/ EnvSetWebhookSecret

\* The webhook router serving requests while its environment is changed.
SpecWebhookReconfigured == InitWebhook /\ [][ReconfiguredWebhookNext]_vars

(***************************************************************************)
(* Properties of the verifier (SpecVerify).                                *)
(***************************************************************************)
VerifyDone == vfIn.some /\ vfOut \notin {"idle", "pending"}

\* The bare hex digest and the documented header of the inputs drawn.
VfDigest == expectedSignature(vfIn.val.payload, vfIn.val.secret)

VfWire == WireSignature(vfIn.val.payload, vfIn.val.secret)

\* C2 as stated: the verifier accepts the signature that is exactly the hex
\* HMAC-SHA256 digest of the payload under the secret, and rejects every
\* signature that differs from that digest in a single character.
C2_AcceptsBareDigest ==
  VerifyDone =>
    /\ vfIn.val.signature = Some(VfDigest) => vfOut = "ok"
    /\ (vfIn.val.signature.some
        /\ vfIn.val.signature.val \in SingleCharMutations(VfDigest)) => vfOut # "ok"

\* C2 amended: the verifier accepts the signature that is exactly "sha256="
\* followed by the hex HMAC-SHA256 digest of the payload under the secret; it
\* rejects the bare digest, and every signature that differs in a single
\* character from that header or from the bare digest.
C2_AcceptsWireDigest ==
  VerifyDone =>
    /\ vfIn.val.signature = Some(VfWire) => vfOut = "ok"
    /\ vfIn.val.signature = Some(VfDigest) => vfOut # "ok"
    /\ (vfIn.val.signature.some
        /\ vfIn.val.signature.val
             \in SingleCharMutations(VfWire) \cup SingleCharMutations(VfDigest))
         => vfOut # "ok"

\* A header in the documented format has been verified and accepted.
C2_Witness ==
  VerifyDone /\ vfIn.val.signature = Some(VfWire) /\ vfOut = "ok"

(***************************************************************************)
(* Properties of the webhook router (SpecWebhook).                         *)
(***************************************************************************)
\* The current request is a POST whose signature header verifies against the
\* configured secret.
WhSignedPost ==
  /\ whReq.some
  /\ whReq.val.method = "POST"
  /\ TruthyStr(wh.secret)
  /\ verifyWebhookSignature(whReq.val.body, whReq.val.signature, wh.secret.val) = "ok"

WhPayload == JsonParse(whReq.val.body).value

WhEventIs(tag) ==
  /\ JsonParse(whReq.val.body).ok
  /\ ~PropThrows(WhPayload)
  /\ GetProp(WhPayload, "event") = JStr(tag)

\* The payload carries an event tag, and it is none of the recognized ones.
WhEventUnrecognized ==
  /\ JsonParse(whReq.val.body).ok
  /\ ~PropThrows(WhPayload)
  /\ GetProp(WhPayload, "event").t = "string"
  /\ GetProp(WhPayload, "event").s \notin {"meeting.processed", "gazette.processed"}

IsPrefix(p, s) == Len(p) <= Len(s) /\ SubSeq(s, 1, Len(p)) = p

\* C1: a callback is invoked only for a request whose method was POST, with a
\* secret configured, whose signature header verified against the raw body
\* and the secret, and whose body parsed as JSON, those steps having been
\* taken in that order before the callback was called.
C1_CallbackOnlyAfterChecks ==
  whCalls # <<>> =>
    /\ WhSignedPost
    /\ JsonParse(whReq.val.body).ok
    /\ IsPrefix(<<"methodCheck", "secretCheck", "readBody", "verify", "parse", "dispatch">>,
                whLog)

\* A callback is running for a verified request.
C1_Witness == whPc = "callback" /\ whCalls # <<>> /\ WhSignedPost

\* C8: at most one callback is invoked per request and it is the one
\* registered for the payload's event tag; a signed POST of
\* {event: "meeting.processed", data: {meeting_id: m}}, with
\* onMeetingProcessed registered, invokes exactly onMeetingProcessed, once,
\* with m.
C8_OnlyTheTaggedCallback ==
  /\ Len(whCalls) <= 1
  /\ \A i \in 1..Len(whCalls) :
       \/ whCalls[i].callback = "onMeetingProcessed" /\ WhEventIs("meeting.processed")
       \/ whCalls[i].callback = "onGazetteProcessed" /\ WhEventIs("gazette.processed")
  /\ \A m \in {7, 8} :
       (/\ whPc \in {"callback", "responded"}
        /\ WhSignedPost
        /\ wh.onMeetingProcessed
        /\ WhEventIs("meeting.processed")
        /\ ~PropThrows(GetProp(WhPayload, "data"))
        /\ GetProp(GetProp(WhPayload, "data"), "meeting_id") = JNum(m))
       => whCalls = <<[callback |-> "onMeetingProcessed", arg |-> JNum(m)]>>

\* The request for meeting 7 has been answered after onMeetingProcessed(7) ran.
C8_Witness ==
  /\ whPc = "responded"
  /\ WhSignedPost
  /\ whReq.val.body = "{\"event\":\"meeting.processed\",\"data\":{\"meeting_id\":7}}"
  /\ whCalls = <<[callback |-> "onMeetingProcessed", arg |-> JNum(7)]>>

\* C9: a correctly signed POST whose payload carries an unrecognized event
\* tag, or a recognized tag for which no callback is registered, is answered
\* 200 {received: true} and invokes no callback.
C9_UnhandledEventAcknowledged ==
  (/\ whPc = "responded"
   /\ WhSignedPost
   /\ \/ WhEventUnrecognized
      \/ WhEventIs("meeting.processed") /\ ~wh.onMeetingProcessed
      \/ WhEventIs("gazette.processed") /\ ~wh.onGazetteProcessed)
  => /\ whResp = Some(successResponse([received |-> TRUE]))
     /\ whCalls = <<>>

\* A signed request with an unrecognized event tag has been answered.
C9_Witness ==
  /\ whPc = "responded"
  /\ WhSignedPost
  /\ WhEventUnrecognized
  /\ whResp.val.status = 200

\* A signed request with a recognized tag and no callback has been answered.
C9_WitnessUnregistered ==
  /\ whPc = "responded"
  /\ WhSignedPost
  /\ WhEventIs("meeting.processed") /\ ~wh.onMeetingProcessed
  /\ whResp.val.status = 200

\* platformRequest called directly, one call after another.
InitPlatform ==
  PlatformInit /\ PlatformIdle /\ VerifyIdle /\ WebhookUnused /\ ResourceUnused /\ OthersUnused

PlatformNext ==
  \/ PlCall
  \/ PlOrgCall
  \/ PlTick
  \/ PlTimerFires
  \/ PlAborts
  \/ PlHeadersArrive
  \/ PlFetchFails
  \/ PlBodyArrives
  \/ PlBodyFails
  \/ PlDone

SpecPlatform == InitPlatform /\ [][PlatformNext]_vars

\* The same, with what the runtime guarantees: time passes, a due timer fires
\* and an aborted fetch rejects.  Nothing obliges the backend to answer.
PlatformFairness ==
  WF_vars(PlTick) /\ WF_vars(PlTimerFires) /\ WF_vars(PlAborts)

LiveSpecPlatform == InitPlatform /\ [][PlatformNext]_vars /\ PlatformFairness

\* Deno.env.set or Deno.env.delete of the backend's variables between two calls.
EnvSetPlatform ==
  /\ plPc = "idle"
  /\ \E secretKey \in {None, Some("key")}, filter \in {None, Some("true"), Some("false")},
        apiUrl \in {None, Some("https://backend.test")} :
       /\ <<secretKey, filter, apiUrl>> # <<envSecretKey, envFilterByUser, envApiUrl>>
       /\ envSecretKey' = secretKey
       /\ envFilterByUser' = filter
       /\ envApiUrl' = apiUrl
  /\ UNCHANGED <<envDevelopment, envWebhookSecret, verifyVars, whVars, plVars, rsVars, ccVars, corsVars>>

ReconfiguredPlatformNext == PlatformNext \/ EnvSetPlatform

\* Callers of the platform client while its environment is changed.
SpecPlatformReconfigured == InitPlatform /\ [][ReconfiguredPlatformNext]_vars

(***************************************************************************)
(* Properties of platformRequest (SpecPlatform, LiveSpecPlatform).         *)
(***************************************************************************)
\* The call in hand is a POST, PATCH or PUT with a body and an identity.
PlMutationWithIdentity ==
  /\ plOpts.some
  /\ plOpts.val.method \in {"POST", "PATCH", "PUT"}
  /\ plOpts.val.body.some
  /\ TruthyStr(plOpts.val.userId)

\* C7: for a POST, PATCH or PUT with a body B and an identity u, the outbound
\* body is B with external_user_id set to u when identity filtering is
\* enabled, and exactly B when it is disabled.
C7_IdentityInjectedIntoBody ==
  PlMutationWithIdentity =>
    LET B == plOpts.val.body.val
        u == plOpts.val.userId.val
        sent == plOut.val.body
    IN  IF envFilterByUser # Some("false")
        THEN /\ sent.some
             /\ sent.val.t = "object"
             /\ DOMAIN sent.val.f = DOMAIN B.f \cup {"external_user_id"}
             /\ sent.val.f["external_user_id"] = JStr(u)
             /\ \A k \in DOMAIN B.f \ {"external_user_id"} : sent.val.f[k] = B.f[k]
        ELSE sent = Some(B)

\* With filtering enabled, {x: 1} for identity u1 goes out as
\* {x: 1, external_user_id: "u1"}.
C7_Witness ==
  /\ PlMutationWithIdentity
  /\ envFilterByUser = None
  /\ plOpts.val.method = "POST"
  /\ plOpts.val.body = Some(JObj([x |-> JNum(1)]))
  /\ plOut.val.body = Some(JObj([x |-> JNum(1), external_user_id |-> JStr("u1")]))

\* With filtering disabled the body goes out as it came.
C7_WitnessDisabled ==
  /\ PlMutationWithIdentity
  /\ envFilterByUser = Some("false")
  /\ plOut.val.body = Some(JObj([x |-> JNum(1)]))

\* The call is still waiting for the backend when the 30 seconds have passed.
PlOverdue == plPc \in {"fetching", "reading"} /\ TimerDue(plClock)

\* C10: every platformRequest whose outbound call has not completed within
\* the 30-second bound, whether the response headers have arrived or not,
\* eventually returns {data: null, status: 504, error: "Request timeout"}.
C10_OverdueCallReturns504 ==
  PlOverdue ~> (plPc = "returned" /\ plResult = Some(TimeoutResult))

\* The CRUD router serving one request after another.
InitResource ==
  /\ ResourceInit /\ PlatformIdle /\ VerifyIdle /\ WebhookUnused /\ OthersUnused
  /\ envDevelopment = FALSE
  /\ envWebhookSecret = None
  /\ envSecretKey \in {None, Some("key")}
  /\ envFilterByUser \in {None, Some("false")}
  /\ envApiUrl = None

ResourceNext ==
  \/ RsReceive
  \/ RsBegin
  \/ RsAuthResolves
  \/ RsBodyParsed
  \/ RsProxyReturns
  \/ RsProxyThrows
  \/ RsCustomCalls
  \/ RsCustomReturns
  \/ RsCustomThrows
  \/ RsFinish
  \/ PlTick
  \/ PlTimerFires
  \/ PlAborts
  \/ PlHeadersArrive
  \/ PlFetchFails
  \/ PlBodyArrives
  \/ PlBodyFails

SpecResource == InitResource /\ [][ResourceNext]_vars

(***************************************************************************)
(* Claims about the CRUD router.                                           *)
(***************************************************************************)
\* verifyAuth answered with a user and no error.
RsAuthenticated ==
  rsAuth # None /\ ~rsAuth.val.throws /\ rsAuth.val.error = None /\ rsAuth.val.user # None

\* verifyAuth answered with an error or without a user.
RsAuthFailed ==
  rsAuth # None /\ ~rsAuth.val.throws /\ (rsAuth.val.error # None \/ rsAuth.val.user = None)

RsHasId == extractResourceId(rsReq.val.pathname) # None

\* The operation a (method, resourceId present?) pair stands for.
RsOperation ==
  CASE rsReq.val.method = "GET" /\ ~RsHasId -> "list"
    [] rsReq.val.method = "GET" /\ RsHasId -> "get"
    [] rsReq.val.method = "POST" /\ ~RsHasId -> "create"
    [] rsReq.val.method \in {"PATCH", "PUT"} /\ RsHasId -> "update"
    [] rsReq.val.method = "DELETE" /\ RsHasId -> "delete"
    [] OTHER -> "none"

RsUnroutable == RsOperation = "none" \/ RsOperation \notin rs.enabledOps

\* C3: a configured, authenticated request whose (method, resourceId present?)
\* pair stands for a disabled operation or for none is answered 405, never 500,
\* and no operation handler is invoked for it.
C3_UnroutableIs405 ==
  (RsAuthenticated /\ RsUnroutable) =>
    /\ rsCalls = <<>>
    /\ rsFetches = 0
    /\ rsPc \in {"json", "responded"}
    /\ rsPc = "responded" => rsResp.val.status = 405

\* C3 witness: an enabled-operation subset refuses a request for an operation
\* outside it.
C3_Witness ==
  /\ RsAuthenticated /\ rsPc = "responded"
  /\ RsOperation # "none" /\ RsOperation \notin rs.enabledOps
  /\ rs.enabledOps # {}
  /\ rsResp.val.status = 405

\* C3, second case: a pair that stands for no operation, all operations enabled.
C3_WitnessUnmapped ==
  /\ RsAuthenticated /\ rsPc = "responded"
  /\ RsOperation = "none" /\ rs.enabledOps = Operations
  /\ rsReq.val.method \in {"POST", "HEAD"}
  /\ rsResp.val.status = 405

\* C4: with all five operations enabled, a configured and authenticated request
\* has, once routed, invoked exactly the handler its (method, resourceId
\* present?) pair stands for, get with the identifier of the path, and no
\* handler for any other pair; no request ever invokes more than one handler.
C4_DispatchTable ==
  /\ Len(rsCalls) <= 1
  /\ (RsAuthenticated /\ rs.enabledOps = Operations /\ rsPc \notin {"json"}) =>
       /\ rsCtx # None
       /\ IF RsOperation = "none"
          THEN rsCalls = <<>>
          ELSE Len(rsCalls) = 1 /\ rsCalls[1].op = RsOperation
       /\ (RsOperation = "get" /\ rsReq.val.pathname = "/alerts/42") =>
            rsCtx.val.resourceId = Some("42")

\* C4 witness: a PUT on an item has invoked update.
C4_Witness ==
  /\ RsAuthenticated /\ rs.enabledOps = Operations
  /\ rsReq.val.method = "PUT" /\ RsHasId
  /\ Len(rsCalls) = 1 /\ rsCalls[1].op = "update"

\* C5: when verifyAuth answers with an error or without a user the response is
\* 401 and nothing else happens for the request: no body is parsed, no
\* context is built, no handler is invoked, no outbound call is issued.
C5_AuthFailureIs401 ==
  RsAuthFailed =>
    /\ rsPc = "responded"
    /\ rsResp.val.status = 401
    /\ rsCtx = None
    /\ rsCalls = <<>>
    /\ rsFetches = 0
    /\ plPc = "idle"
    /\ \A i \in 1..Len(rsLog) : rsLog[i] \notin {"parseBody", "dispatch"}

\* C5 witness: a POST with a usable body, to a router with create enabled,
\* was refused for its token.
C5_Witness ==
  /\ RsAuthFailed /\ rsPc = "responded"
  /\ rsReq.val.method = "POST" /\ rsReq.val.body = Some("{\"x\":1}")
  /\ rsReq.val.authorization # None
  /\ "create" \in rs.enabledOps
  /\ rsResp.val.status = 401

\* The default create or update handler was invoked on a context without body.
RsDefaultMutationWithoutBody ==
  /\ Len(rsCalls) = 1
  /\ rsCalls[1].op \in {"create", "update"} /\ rsCalls[1].by = "default"
  /\ rsCtx # None /\ rsCtx.val.body = None

\* C6: the default create and update handlers answer a context whose body is
\* null with 400 and issue no outbound call.
C6_MissingBodyIs400 ==
  RsDefaultMutationWithoutBody =>
    /\ rsPc = "responded"
    /\ rsResp.val.status = 400
    /\ rsResp.val.body = [error |-> "Request body is required"]
    /\ rsFetches = 0
    /\ plPc = "idle"

\* C6 witness: an update whose body text does not parse was answered 400.
C6_Witness ==
  /\ RsDefaultMutationWithoutBody
  /\ rsCalls[1].op = "update" /\ rsReq.val.body = Some("abc")
  /\ rsResp # None /\ rsResp.val.status = 400

\* The places of the non-empty segments in the split of the request's path.
RsSegmentPlaces ==
  {i \in DOMAIN SplitPath(rsReq.val.pathname) : SplitPath(rsReq.val.pathname)[i] # ""}

\* C11: the context's resourceId is non-null if and only if the path has at
\* least two non-empty segments, and is then the last non-empty segment.
C11_ResourceIdIsLastSegment ==
  rsCtx # None =>
    /\ rsCtx.val.resourceId # None <=> Cardinality(RsSegmentPlaces) >= 2
    /\ rsCtx.val.resourceId # None =>
         \E last \in RsSegmentPlaces :
           /\ \A i \in RsSegmentPlaces : i <= last
           /\ rsCtx.val.resourceId.val = SplitPath(rsReq.val.pathname)[last]

\* C11 witness: a path ending in a slash gave the segment before it.
C11_Witness ==
  /\ rsCtx # None
  /\ rsReq.val.pathname = "/alerts/42/"
  /\ rsCtx.val.resourceId = Some("42")

\* C11, the other side: a path of one segment gave no resourceId.
C11_WitnessNoId ==
  /\ rsCtx # None
  /\ rsReq.val.pathname = "/alerts/"
  /\ rsCtx.val.resourceId = None

\* C12: the handler that answers a request routed to an operation is the
\* override when one was supplied for the operation and the generated default
\* otherwise, one of them only; an operation has a handler only when it is
\* enabled, so an override of a disabled operation is never invoked, and an
\* operation without override keeps its default whatever else is overridden.
C12_OverrideOrDefault ==
  /\ \A op \in Operations :
       /\ rs.handlers[op] # "none" <=> op \in rs.enabledOps
       /\ (op \in rs.enabledOps /\ op \notin rs.customHandlers) => rs.handlers[op] = "default"
  /\ Len(rsCalls) <= 1
  /\ \A i \in 1..Len(rsCalls) :
       /\ rsCalls[i].op \in rs.enabledOps
       /\ rsCalls[i].by = IF rsCalls[i].op \in rs.customHandlers THEN "custom" ELSE "default"

\* C12 witness: the override of create answered a POST.
C12_Witness ==
  /\ rs.customHandlers = {"create"}
  /\ rsCalls = <<[op |-> "create", by |-> "custom"]>>
  /\ rsPc = "responded" /\ rsResp.val.status = 200

\* C12, the other cases: next to an override of create the default of list
\* answered; an override of a disabled operation was refused.
C12_WitnessDefault ==
  /\ rs.customHandlers = {"create"}
  /\ rsCalls = <<[op |-> "list", by |-> "default"]>>

C12_WitnessDisabledOverride ==
  /\ rs.customHandlers = {"create"} /\ "create" \notin rs.enabledOps
  /\ RsAuthenticated /\ RsOperation = "create"
  /\ rsPc = "responded" /\ rsResp.val.status = 405 /\ rsCalls = <<>>

\* C13: nothing is retried. An invocation of platformRequest or of
\* organizationGet has invoked fetch once, whatever became of it, and a request
\* answered by a default handler has made at most one outbound call.
C13_SingleAttempt ==
  /\ plFetches <= 1
  /\ plPc # "idle" => plFetches = 1
  /\ (Len(rsCalls) = 1 /\ rsCalls[1].by = "default") => rsFetches <= 1
  /\ (rsPc = "proxy") => rsFetches = 1

\* C13 witness: the call of a default handler ended in a transport fault
\* after its one fetch.
C13_Witness ==
  /\ rsPc = "proxy" /\ plPc = "thrown"
  /\ plOut.val.via = "platformRequest"
  /\ plFetches = 1 /\ rsFetches = 1

\* C13, other outcomes: a timeout, a 500 of the backend, and organizationGet.
C13_WitnessTimeout ==
  rsPc = "proxy" /\ plPc = "returned" /\ plResult.val.status = 504 /\ plFetches = 1

C13_WitnessServerError ==
  rsPc = "proxy" /\ plPc = "returned" /\ plResult.val.status = 500 /\ plFetches = 1

C13_WitnessOrganization ==
  plPc = "thrown" /\ plOut.val.via = "organizationGet" /\ plFetches = 1

(***************************************************************************)
(* Claims about the results of platformRequest and organizationGet.        *)
(***************************************************************************)
PlReturned == plPc = "returned"

\* C14 as stated: in every result returned, data is non-null only when the
\* upstream call completed with content that parsed as JSON; data is null on
\* timeout, on an empty body and on a body that does not parse.
C14_DataOnlyFromParsedBody ==
  PlReturned =>
    /\ plResult.val.data # JNull => (plText # None /\ JsonParse(plText.val).ok)
    /\ plAborted => plResult.val.data = JNull
    /\ plText = Some("") => plResult.val.data = JNull
    /\ (plText # None /\ ~JsonParse(plText.val).ok) => plResult.val.data = JNull

\* C14 amended: in every result returned, data is non-null only when the
\* upstream call completed and its body was read and was not empty; data is
\* null on timeout, on an empty body, and in organizationGet's result for a
\* response that is not ok. For a body that does not parse, platformRequest
\* returns the text itself as data, and organizationGet returns no result: it
\* rethrows the fault of the parse.
C14_DataOnlyFromBody ==
  /\ PlReturned =>
       /\ plResult.val.data # JNull =>
            /\ plText # None /\ plText.val # "" /\ ~plAborted
            /\ plResult.val.data = IF JsonParse(plText.val).ok
                                   THEN JsonParse(plText.val).value
                                   ELSE JStr(plText.val)
       /\ plAborted => plResult.val.data = JNull
       /\ plText = Some("") => plResult.val.data = JNull
       /\ plText = None => plResult.val.data = JNull
       /\ (plText # None /\ plText.val # "" /\ ~JsonParse(plText.val).ok) =>
            /\ plOut.val.via = "platformRequest"
            /\ plResult.val.data = JStr(plText.val)
  /\ (plPc = "thrown" /\ plText # None) =>
       /\ plOut.val.via = "organizationGet"
       /\ ~JsonParse(plText.val).ok

\* C14 witness: platformRequest returned a body that is not JSON as its data.
C14_Witness ==
  /\ PlReturned /\ plOut.val.via = "platformRequest"
  /\ plText = Some("abc") /\ plResult.val.data = JStr("abc")

\* C14, other cases: null data for an empty body and for a timeout; a parsed
\* body; organizationGet rethrowing on an empty body.
C14_WitnessEmpty ==
  PlReturned /\ plText = Some("") /\ plResult.val.data = JNull /\ plResult.val.status = 204

C14_WitnessTimeout ==
  PlReturned /\ plAborted /\ plResult.val = TimeoutResult

C14_WitnessParsed ==
  /\ PlReturned /\ plOut.val.via = "organizationGet"
  /\ plResult.val.data = JObj([id |-> JNum(1)])

C14_WitnessOrganizationThrows ==
  plPc = "thrown" /\ plOut.val.via = "organizationGet" /\ plText = Some("")

(***************************************************************************)
(* Claims about the order of the webhook router's checks.                  *)
(***************************************************************************)
WhResponded == whPc = "responded"

\* The request is an OPTIONS request and a CORS handler is configured.
WhPreflight == whReq.val.method = "OPTIONS" /\ wh.cors

WhPost == whReq.val.method = "POST"

\* The place of a step in the request's log, 0 when it was not taken.
WhPlace(step) ==
  IF \E i \in 1..Len(whLog) : whLog[i] = step
  THEN CHOOSE i \in 1..Len(whLog) : whLog[i] = step
  ELSE 0

\* The checks after the method check, in their order; the body is parsed only
\* after its signature was verified.
WhLaterChecks ==
  /\ (WhPost /\ ~TruthyStr(wh.secret)) => whResp.val.status = 500
  /\ (WhPost /\ TruthyStr(wh.secret) /\ ~WhSignedPost) => whResp.val.status = 401
  /\ (WhSignedPost /\ ~JsonParse(whReq.val.body).ok) => whResp.val.status = 400
  /\ WhPlace("parse") # 0 =>
       /\ WhSignedPost
       /\ 0 < WhPlace("verify") /\ WhPlace("verify") < WhPlace("parse")

\* C15 as stated: the checks run in a fixed order and the first failing one
\* decides the response: a method other than POST gives 405, also without a
\* secret; a missing secret gives 500; a signature that does not verify gives
\* 401, also for a body that is not JSON; a verified body that does not parse
\* gives 400; no body is parsed before its signature was verified.
C15_FirstFailingCheckDecides ==
  WhResponded =>
    /\ ~WhPost => whResp.val.status = 405
    /\ WhLaterChecks

\* C15 amended: as stated, for every request but an OPTIONS request to a
\* router with a CORS handler, which is answered by the preflight before any
\* check; an OPTIONS request to a router without one gives 405.
C15_FirstFailingCheckDecidesAfterPreflight ==
  /\ WhResponded =>
       /\ WhPreflight => whResp.val = handleCorsPrelight /\ whLog = <<"preflight">>
       /\ (~WhPost /\ ~WhPreflight) => whResp.val.status = 405
       /\ WhLaterChecks
  /\ WhPlace("parse") # 0 => (WhSignedPost /\ WhPlace("verify") \in 1..(WhPlace("parse") - 1))

\* C15 witness: a signature that does not verify on a body that is not JSON
\* was answered 401.
C15_Witness ==
  /\ WhResponded /\ WhPost /\ TruthyStr(wh.secret) /\ ~WhSignedPost
  /\ whReq.val.signature # None
  /\ ~JsonParse(whReq.val.body).ok
  /\ whResp.val.status = 401

\* C15, other cases: 405 without a secret, 500, 400, and 405 for OPTIONS
\* without a CORS handler.
C15_Witness405NoSecret ==
  WhResponded /\ whReq.val.method = "GET" /\ ~TruthyStr(wh.secret) /\ whResp.val.status = 405

C15_Witness500 ==
  WhResponded /\ WhPost /\ wh.secret = Some("") /\ whResp.val.status = 500

C15_Witness400 ==
  WhResponded /\ WhSignedPost /\ whResp.val.status = 400

C15_WitnessOptions405 ==
  WhResponded /\ whReq.val.method = "OPTIONS" /\ ~wh.cors /\ whResp.val.status = 405

WhLastStep == IF whLog = <<>> THEN "none" ELSE whLog[Len(whLog)]

WhAcknowledged == whResp # None /\ whResp.val = successResponse([received |-> TRUE])

\* C16: the response 200 {received: true} is produced only once the selected
\* callback has run to completion, or when none was selected; while the
\* callback runs there is no response; a callback that throws or rejects gives
\* 500, never 200, and the request still ends in a response.
C16_AcknowledgedOnlyAfterCallback ==
  /\ WhAcknowledged =>
       /\ WhResponded
       /\ IF whCalls = <<>>
          THEN WhLastStep = "dispatch"
          ELSE Len(whCalls) = 1 /\ WhLastStep = "callbackReturned"
  /\ whPc = "callback" => (whResp = None /\ Len(whCalls) = 1)
  /\ WhPlace("callbackThrew") # 0 =>
       /\ WhResponded
       /\ whResp.val.status = 500
       /\ ~WhAcknowledged

\* C16 witness: the callback threw and the request was answered 500.
C16_Witness ==
  /\ WhResponded /\ WhLastStep = "callbackThrew"
  /\ whCalls # <<>> /\ whResp.val.status = 500

\* C16, the other case: the callback returned and the event was acknowledged.
C16_WitnessAcknowledged ==
  WhAcknowledged /\ WhLastStep = "callbackReturned" /\ whCalls # <<>>

(***************************************************************************)
(* Claims about the faults of the CRUD router.                             *)
(***************************************************************************)
RsResponded == rsPc = "responded"

RsLastStep == IF rsLog = <<>> THEN "none" ELSE rsLog[Len(rsLog)]

\* A fault reached the router's catch: verifyAuth rejected, a handler threw,
\* or the platformRequest of a default handler rethrew a transport fault.
RsFaultCaught ==
  \/ rsAuth # None /\ rsAuth.val.throws
  \/ RsLastStep \in {"proxyThrew", "customThrew", "handlerThrew"}

\* The configuration check fails for the request.
RsNotConfigured == rsReq.val.method # "OPTIONS" /\ ~isPlatformConfigured(envSecretKey)

\* req.json() rejected for the request: it is read, and its body is missing or
\* is not JSON.
RsBodyFault ==
  /\ RsAuthenticated
  /\ rsReq.val.method \in {"POST", "PATCH", "PUT"}
  /\ (rsReq.val.body = None \/ ~JsonParse(rsReq.val.body.val).ok)

\* Faults end in a 500 response and stay inside the handler.
RsFaultsAnswered ==
  /\ RsResponded =>
       /\ RsFaultCaught => rsResp.val.status = 500
       /\ RsNotConfigured => rsResp.val.status = 500
  /\ RsFaultCaught => RsResponded
  /\ (plPc = "thrown" /\ rsReq # None) => rsPc \in {"proxy", "custom"}

C17_WitnessOverride ==
  RsResponded /\ RsLastStep = "customThrew" /\ rsResp.val.status = 500

C17_WitnessAuth ==
  RsResponded /\ rsAuth # None /\ rsAuth.val.throws /\ rsResp.val.status = 500

C17_WitnessHandler ==
  RsResponded /\ RsLastStep = "handlerThrew" /\ rsResp.val.status = 500

C17_WitnessNotConfigured ==
  RsResponded /\ RsNotConfigured /\ rsResp.val.status = 500

C17_WitnessBodyFault ==
  RsResponded /\ RsBodyFault /\ rsReq.val.body = Some("abc") /\ rsResp.val.status = 400

\* C18: platformRequest gives a timeout as the returned value {data: null,
\* status: 504, error: "Request timeout"} and never throws it; every other
\* fault of the outbound call is rethrown as it was raised, and is neither
\* swallowed nor turned into a result.
C18_TimeoutReturnedFaultRethrown ==
  /\ (plAborted /\ plPc \in {"returned", "thrown"}) =>
       /\ plPc = "returned"
       /\ plResult = Some(TimeoutResult)
       /\ plFault = None
  /\ plPc = "thrown" =>
       /\ plFault # None /\ plResult = None /\ ~plAborted
       /\ plFault.val.name # "AbortError"
       /\ plFault.val \in TransportFaults \cup {BodyRefused}
                          \cup {Fault("SyntaxError", "Unexpected end of JSON input")}
  /\ plPc = "returned" =>
       /\ plFault = None /\ plResult # None
       /\ plResult.val = TimeoutResult => plAborted
  /\ plPc \in {"fetching", "reading"} => (plResult = None /\ plFault = None)

\* C18 witness: platformRequest rethrew the fault of a connection that failed.
C18_Witness ==
  /\ plPc = "thrown" /\ plOut.val.via = "platformRequest"
  /\ plFault = Some(Fault("TypeError", "error sending request"))

\* C18, the timeout: the aborted call returned the 504 value.
C18_WitnessTimeout ==
  /\ plPc = "returned" /\ plOut.val.via = "platformRequest" /\ plAborted
  /\ plResult = Some(TimeoutResult)

(***************************************************************************)
(* Claims about the outbound request of platformRequest.                   *)
(***************************************************************************)
\* A platformRequest has built its outbound request.
PlRequestBuilt == plOut # None /\ plOut.val.via = "platformRequest"

\* The entries of the params option whose value is neither null nor undefined.
PlGivenEntries ==
  LET given == SelectSeq(plOpts.val.params, LAMBDA e : e[2] # None)
  IN  [i \in 1..Len(given) |-> <<given[i][1], given[i][2].val>>]

\* The call is a GET with filtering enabled and an identity present.
PlScopedGet ==
  /\ plOpts.val.method = "GET"
  /\ envFilterByUser # Some("false")
  /\ plOpts.val.userId # None /\ plOpts.val.userId.val # ""

NotIdentityKey(e) == e[1] # "external_user_id"

\* C19: the outbound URL is base URL + path + query; the query holds every
\* params key whose value is neither null nor undefined; for a GET with
\* filtering enabled and an identity present it holds external_user_id once,
\* with the identity as value; for every other call it holds the given
\* entries and nothing else.
C19_OutboundQuery ==
  PlRequestBuilt =>
    /\ plOut.val.base = IF envApiUrl # None /\ envApiUrl.val # "" THEN envApiUrl.val
                        ELSE "https://api.hillmonitor.ca"
    /\ plOut.val.path = plOpts.val.path
    /\ IF PlScopedGet
       THEN /\ SelectSeq(plOut.val.query, NotIdentityKey) = SelectSeq(PlGivenEntries, NotIdentityKey)
            /\ Cardinality({i \in DOMAIN plOut.val.query : ~NotIdentityKey(plOut.val.query[i])}) = 1
            /\ \A i \in DOMAIN plOut.val.query :
                 ~NotIdentityKey(plOut.val.query[i]) =>
                   plOut.val.query[i][2] = plOpts.val.userId.val
       ELSE plOut.val.query = PlGivenEntries

\* C19 witness: a GET whose params carry an external_user_id of their own and
\* a null value went out with the identity's external_user_id alone.
C19_Witness ==
  /\ PlRequestBuilt /\ PlScopedGet
  /\ plOpts.val.params = <<<<"external_user_id", Some("evil")>>, <<"q", Some("a")>>>>
  /\ plOut.val.query = <<<<"external_user_id", "u1">>, <<"q", "a">>>>

\* C19, other cases: a null value left out; no identity added to a POST.
C19_WitnessNullOmitted ==
  /\ PlRequestBuilt /\ PlScopedGet
  /\ plOpts.val.params = <<<<"q", Some("a")>>, <<"skip", None>>>>
  /\ plOut.val.query = <<<<"q", "a">>, <<"external_user_id", "u1">>>>

C19_WitnessPost ==
  /\ PlRequestBuilt /\ plOpts.val.method = "POST" /\ plOpts.val.userId = Some("u1")
  /\ envFilterByUser = None
  /\ plOut.val.query = <<>>

GetWithBodyIsRefused ==
  (PlRequestBuilt /\ plOut.val.method = "GET" /\ plOut.val.body # None) =>
    /\ plStatus = None
    /\ plPc = "thrown" => plFault = Some(BodyRefused)

(***************************************************************************)
(* Claims about organizationGet.                                           *)
(***************************************************************************)
\* An organizationGet has built its outbound request.
OrgRequestBuilt == plOut # None /\ plOut.val.via = "organizationGet"

\* C21: organizationGet (getFullMeeting, getGazetteEdition,
\* getGazetteEditionAlertMatches) never puts external_user_id in the outbound
\* request, whatever the filtering toggle is, and for a response whose status
\* is not 2xx it returns {data: null, status, error: "HTTP <status>"}.
C21_UnscopedAndHttpError ==
  OrgRequestBuilt =>
    /\ \A i \in DOMAIN plOut.val.query : plOut.val.query[i][1] # "external_user_id"
    /\ plOut.val.body = None
    /\ plOut.val.method = "GET"
    /\ (plStatus # None /\ plStatus.val \notin 200..299) =>
         /\ plPc = "returned"
         /\ plText = None
         /\ plResult = Some([data |-> JNull, status |-> plStatus.val,
                             error |-> Some("HTTP " \o ToString(plStatus.val))])

\* C21 witness: with filtering enabled, a 404 came back as the error result.
C21_Witness ==
  /\ OrgRequestBuilt /\ envFilterByUser # Some("false")
  /\ plStatus = Some(404) /\ plPc = "returned"
  /\ plResult.val.error = Some("HTTP 404") /\ plResult.val.data = JNull

\* C21, the 2xx case: the parsed body is the data.
C21_WitnessOk ==
  /\ OrgRequestBuilt /\ plStatus = Some(200) /\ plPc = "returned"
  /\ plResult.val.data = JObj([id |-> JNum(1)])

(***************************************************************************)
(* Claims about the default handlers.                                      *)
(***************************************************************************)
\* The default handler of the operation awaits its platformRequest.
RsProxying(op) ==
  /\ rsPc = "proxy"
  /\ rsCalls # <<>>
  /\ rsCalls[Len(rsCalls)] = [op |-> op, by |-> "default"]

\* The platformRequest of the default delete handler is a DELETE to
\* collection path + resourceId + "/", without a body.
DeleteOutbound ==
  RsProxying("delete") =>
    /\ plOut.val.method = "DELETE"
    /\ plOut.val.path = rs.platformPath \o rsCtx.val.resourceId.val \o "/"
    /\ plOut.val.body = None

\* C22: the default delete handler issues a DELETE to collection path +
\* resourceId + "/"; it answers 204 with an empty body when the backend status
\* is 204, and for every other backend status, the 504 of a timeout included,
\* that status with a null body.
C22_DeleteForwardsStatus ==
  [][(RsProxying("delete") /\ plPc = "returned" /\ rsPc' = "responded") =>
       /\ DeleteOutbound
       /\ rsResp' = Some(IF plResult.val.status = 204
                         THEN [status |-> 204, body |-> [empty |-> TRUE]]
                         ELSE [status |-> plResult.val.status, body |-> JNull])]_vars

\* What holds of the delete handler: the status is forwarded with a null body
\* unless it is a null-body status other than 204; for those (205) the
\* Response constructor throws and the router answers 500.
DeleteForwardsBodyStatus ==
  [][(RsProxying("delete") /\ plPc = "returned" /\ rsPc' = "responded") =>
       /\ DeleteOutbound
       /\ rsResp'.val.status =
            IF plResult.val.status \in {101, 103, 205, 304} THEN 500
            ELSE plResult.val.status
       /\ rsResp'.val.body # plResult.val.data \/ plResult.val.data = JNull]_vars

(***************************************************************************)
(* Claims about the preflight and the configuration checks.                *)
(***************************************************************************)
WhOptions == whReq # None /\ whReq.val.method = "OPTIONS"

\* C23 as stated: every OPTIONS request to the webhook router is answered with
\* the CORS preflight response, with or without a CORS handler, and no method
\* check, secret check, signature verification or callback takes place for it.
C23_OptionsIsPreflight ==
  WhOptions =>
    /\ whPc \in {"received", "responded"}
    /\ whCalls = <<>>
    /\ WhResponded => (whResp.val = handleCorsPrelight /\ whLog = <<"preflight">>)

\* C23 amended: an OPTIONS request to a webhook router that has a CORS handler
\* (given in the configuration, or the default one of the environment) is
\* answered with the preflight response and no check takes place for it; to a
\* router without a CORS handler it is answered 405 by the method check; in
\* both cases there is no secret check, no verification and no callback.
C23_OptionsIsPreflightWithHandler ==
  WhOptions =>
    /\ whPc \in {"received", "responded"}
    /\ whCalls = <<>>
    /\ WhResponded =>
         IF wh.cors
         THEN whResp.val = handleCorsPrelight /\ whLog = <<"preflight">>
         ELSE whResp.val.status = 405 /\ whLog = <<"methodCheck">>

\* C23 witness: the preflight answered an OPTIONS request of a router that has
\* a CORS handler and no secret.
C23_Witness ==
  /\ WhOptions /\ WhResponded /\ wh.cors /\ ~TruthyStr(wh.secret)
  /\ whResp.val = handleCorsPrelight

\* C23, without a CORS handler: 405.
C23_WitnessNoHandler ==
  /\ WhOptions /\ WhResponded /\ ~wh.cors /\ TruthyStr(wh.secret)
  /\ whResp.val.status = 405 /\ whLog = <<"methodCheck">>

RsOptions == rsReq # None /\ rsReq.val.method = "OPTIONS"

\* The place of a step in the request's log, 0 when it was not taken.
RsPlace(step) ==
  IF \E i \in 1..Len(rsLog) : rsLog[i] = step
  THEN CHOOSE i \in 1..Len(rsLog) : rsLog[i] = step
  ELSE 0

C24_WitnessPreflight ==
  /\ RsOptions /\ RsResponded /\ ~isPlatformConfigured(envSecretKey)
  /\ rsResp.val = handleCorsPrelight

\* C24, the configured router: verifyAuth answered after the configuration check.
C24_WitnessAuthAfterConfig ==
  /\ rsAuth # None /\ rsLog = <<"configCheck", "verifyAuth">>

\* The request reached verification and verifyWebhookSignature threw the error.
WhVerificationFailed(reason) ==
  /\ WhResponded /\ WhPost /\ TruthyStr(wh.secret)
  /\ verifyWebhookSignature(whReq.val.body, whReq.val.signature, wh.secret.val) = reason

\* C25: the response to a request that fails signature verification does not
\* depend on the reason: for a missing signature, one without the expected
\* format and a well-formed one that does not match, the status is 401 and the
\* body is the same.
C25_SameResponseForEveryReason ==
  \A reason \in {ErrMissingSignature, ErrSignatureFormat, ErrSignatureMismatch} :
    WhVerificationFailed(reason) =>
      /\ whResp.val = [status |-> 401, body |-> [error |-> "Unauthorized"]]
      /\ whCalls = <<>>

\* C25 witness: in development mode, a well-formed signature made with another
\* secret was answered 401.
C25_Witness ==
  /\ WhVerificationFailed(ErrSignatureMismatch) /\ envDevelopment
  /\ whReq.val.signature = Some(WireSignature(whReq.val.body, "t"))
  /\ whResp.val.status = 401

\* C25, the other reasons: no header, an empty header, a bare digest.
C25_WitnessMissing ==
  WhVerificationFailed(ErrMissingSignature) /\ whReq.val.signature = None

C25_WitnessEmpty ==
  WhVerificationFailed(ErrMissingSignature) /\ whReq.val.signature = Some(<<>>)

C25_WitnessFormat ==
  /\ WhVerificationFailed(ErrSignatureFormat)
  /\ whReq.val.signature = Some(expectedSignature(whReq.val.body, wh.secret.val))

\* The body of the generic server error.
GenericServerError == [status |-> 500, body |-> [error |-> "Internal server error"]]

\* C26: when the backend credential is missing the CRUD router answers 500
\* with the generic server-error message alone; that the configuration is
\* missing is not disclosed in the response body, in either mode.
C26_MissingConfigurationNotDisclosed ==
  (RsResponded /\ RsNotConfigured) => rsResp.val = GenericServerError

\* What the CRUD router answers without the credential: 500, with a message
\* that names the missing configuration.
ResourceNamesMissingConfiguration ==
  (RsResponded /\ RsNotConfigured) =>
    rsResp.val = [status |-> 500, body |-> [error |-> "Platform API is not configured"]]

\* The webhook router without a secret answers a POST with the generic server
\* error in both modes.
WebhookMissingSecretIsGeneric ==
  (WhResponded /\ WhPost /\ ~TruthyStr(wh.secret)) => whResp.val = GenericServerError

(***************************************************************************)
(* The wire format of the verifier (SpecVerify).                           *)
(***************************************************************************)
\* The signature given is null or empty.
VfNoSignature == vfIn.val.signature = None \/ vfIn.val.signature.val = <<>>

\* The signature given starts with the seven characters "sha256=".
VfPrefixed ==
  /\ ~VfNoSignature
  /\ Len(vfIn.val.signature.val) >= 7
  /\ SubSeq(vfIn.val.signature.val, 1, 7) = <<"s", "h", "a", "2", "5", "6", "=">>

\* The text after the seven characters of the prefix.
VfAfterPrefix == SubSeq(vfIn.val.signature.val, 8, Len(vfIn.val.signature.val))

\* C27: verifyWebhookSignature applies the "sha256=<hexdigest>" format: a null
\* or empty signature fails as missing, one that does not start with "sha256="
\* fails as malformed whatever digest it holds, and any other succeeds if and
\* only if the text after the prefix is the lowercase hex HMAC digest of the
\* payload under the secret; the outcome is a function of the three inputs.
C27_WireFormatApplied ==
  VerifyDone =>
    /\ VfNoSignature => vfOut = "Missing webhook signature"
    /\ (~VfNoSignature /\ ~VfPrefixed) =>
         vfOut = "Invalid signature format: expected sha256= prefix"
    /\ VfPrefixed =>
         vfOut = IF VfAfterPrefix = VfDigest THEN "ok" ELSE "Invalid webhook signature"

\* C27 witness: the bare digest, right but without the prefix, failed as
\* malformed.
C27_Witness ==
  /\ VerifyDone /\ vfIn.val.signature = Some(VfDigest)
  /\ vfOut = "Invalid signature format: expected sha256= prefix"

\* C27, the other outcomes: missing, accepted, mismatched after the prefix,
\* and rejected for the case of a hex letter.
C27_WitnessMissing == VerifyDone /\ vfIn.val.signature = Some(<<>>) /\ vfOut = ErrMissingSignature

C27_WitnessAccepted == VerifyDone /\ VfPrefixed /\ VfAfterPrefix = VfDigest /\ vfOut = "ok"

C27_WitnessMismatch ==
  /\ VerifyDone /\ VfPrefixed /\ VfAfterPrefix # VfDigest
  /\ Len(VfAfterPrefix) = Len(VfDigest)
  /\ vfOut = ErrSignatureMismatch

C27_WitnessUppercase ==
  /\ VerifyDone /\ VfPrefixed /\ VfAfterPrefix # VfDigest
  /\ ToLowerCase(VfAfterPrefix) = VfDigest
  /\ vfOut = ErrSignatureMismatch

\* Identity filtering is enabled in the environment.
FilteringEnabled == envFilterByUser # Some("false")

\* The entry is in the query of the outbound request.
InOutboundQuery(e) == \E j \in DOMAIN plOut.val.query : plOut.val.query[j] = e

\* C28: the default list handler forwards every (key, value) pair of the
\* inbound query string, each value of a repeated key included, to the
\* outbound GET on the collection path, together with the identity key when
\* filtering is enabled.  (An external_user_id pair of the client's own is left
\* out of the requirement when filtering is enabled.)
C28_ListForwardsEveryPair ==
  RsProxying("list") =>
    /\ plOut.val.method = "GET" /\ plOut.val.path = rs.platformPath
    /\ \A i \in DOMAIN rsReq.val.query :
         (rsReq.val.query[i][1] # "external_user_id" \/ ~FilteringEnabled) =>
           InOutboundQuery(rsReq.val.query[i])
    /\ FilteringEnabled => InOutboundQuery(<<"external_user_id", rsCtx.val.userId>>)

\* What the list handler forwards: for each key of the inbound query string
\* its last value alone, and the identity key when filtering is enabled.
ListForwardsLastValues ==
  RsProxying("list") =>
    /\ plOut.val.method = "GET" /\ plOut.val.path = rs.platformPath
    /\ \A i \in DOMAIN rsReq.val.query :
         (rsReq.val.query[i][1] # "external_user_id" \/ ~FilteringEnabled) =>
           (InOutboundQuery(rsReq.val.query[i])
              <=> \A j \in (i + 1)..Len(rsReq.val.query) :
                    rsReq.val.query[j][1] # rsReq.val.query[i][1])
    /\ FilteringEnabled => InOutboundQuery(<<"external_user_id", rsCtx.val.userId>>)
    /\ \A j \in DOMAIN plOut.val.query :
         \/ \E i \in DOMAIN rsReq.val.query : rsReq.val.query[i] = plOut.val.query[j]
         \/ plOut.val.query[j] = <<"external_user_id", rsCtx.val.userId>>

RsMutating == rsReq # None /\ rsReq.val.method \in {"POST", "PATCH", "PUT"}

\* The operation the router called last, and by which handler.
RsLastCall == rsCalls[Len(rsCalls)]

\* C29: the CRUD router reads and parses the body for POST, PATCH and PUT
\* only; a body that cannot be parsed is not fatal: it gives neither 500 nor a
\* 400 of its own, and the context's body is null; for the other methods the
\* context's body is null; a mutating request with an unparseable body that
\* stands for a disabled operation or for none is answered 405, not 400.
C29_BodyParsedForMutationsOnly ==
  /\ (rsPc = "json" \/ RsPlace("parseBody") # 0) => RsMutating
  /\ (rsCtx # None /\ ~RsMutating) => rsCtx.val.body = None
  /\ (rsCtx # None /\ RsBodyFault) => rsCtx.val.body = None
  /\ (RsResponded /\ RsBodyFault) =>
       /\ rsCtx # None /\ RsPlace("dispatch") # 0
       /\ RsUnroutable => rsResp.val.status = 405
       /\ rsResp.val.status = 400 =>
            (rsCalls # <<>> /\ RsLastCall.by = "default" /\ RsLastCall.op \in {"create", "update"})
       /\ rsResp.val.status = 500 => RsFaultCaught

\* C29 witness: a PATCH without resourceId and with a body that is not JSON
\* was answered 405.
C29_Witness ==
  /\ RsResponded /\ rsReq.val.method = "PATCH" /\ rsReq.val.body = Some("abc")
  /\ ~RsHasId /\ "update" \in rs.enabledOps
  /\ rsCtx # None /\ rsCtx.val.body = None
  /\ rsResp.val.status = 405

\* C29, other cases: a disabled create with an unparseable body, 405; an
\* enabled default create with one, 400 from the handler; a body that parses.
C29_WitnessDisabled ==
  /\ RsResponded /\ rsReq.val.method = "POST" /\ rsReq.val.body = Some("abc")
  /\ ~RsHasId /\ "create" \notin rs.enabledOps
  /\ rsResp.val.status = 405

C29_WitnessHandler400 ==
  /\ RsResponded /\ rsReq.val.method = "POST" /\ rsReq.val.body = Some("abc")
  /\ rsCalls = <<[op |-> "create", by |-> "default"]>>
  /\ rsResp.val.status = 400

C29_WitnessParsed ==
  /\ rsCtx # None /\ rsReq.val.method = "PUT"
  /\ rsCtx.val.body = Some(JObj([x |-> JNum(1)]))

(***************************************************************************)
(* Configuration changed between requests (SpecWebhookReconfigured).       *)
(***************************************************************************)
\* The webhook secret in force when the request is handled: the one of the
\* configuration, or else the environment's current one.
WhCurrentSecret == Coalesce(wh.configSecret, envWebhookSecret)

\* C30: configuration is read at each call and not cached: when the webhook
\* secret of the environment changes between two requests, the later request
\* is handled with the new value: without one the answer is 500, with one the
\* signature is verified against it.
C30_SecretReadAtEachRequest ==
  (WhResponded /\ WhPost) =>
    IF ~TruthyStr(WhCurrentSecret)
    THEN whResp.val.status = 500 /\ whLog = <<"methodCheck", "secretCheck">>
    ELSE whResp.val.status = 401
           <=> verifyWebhookSignature(whReq.val.body, whReq.val.signature,
                                      WhCurrentSecret.val) # "ok"

\* What the webhook router does: every request is handled with the secret
\* resolved when serveWebhook was called.
SecretOfStartupUsed ==
  (WhResponded /\ WhPost) =>
    IF ~TruthyStr(wh.secret)
    THEN whResp.val.status = 500 /\ whLog = <<"methodCheck", "secretCheck">>
    ELSE whResp.val.status = 401
           <=> verifyWebhookSignature(whReq.val.body, whReq.val.signature,
                                      wh.secret.val) # "ok"

\* The environment's secret is no longer the one the router resolved.
SecretChangedSinceStartup ==
  /\ wh.configSecret = None /\ envWebhookSecret # wh.secret
  /\ WhResponded /\ WhPost

\* platformRequest and organizationGet read the base URL, the credential and
\* the filtering toggle at each call: the request built is the one the
\* environment of the call gives, whatever the environment was before.
EnvReadAtEachCall ==
  plOut # None =>
    plOut.val =
      IF plOut.val.via = "platformRequest"
      THEN BuildOutbound(plOpts.val, envApiUrl, envSecretKey, envFilterByUser)
      ELSE OrganizationOutbound(plOpts.val.path, envApiUrl, envSecretKey)

(***************************************************************************)
(* Error detail and development mode.                                      *)
(***************************************************************************)
\* The webhook router answered through serverErrorResponse: the secret is
\* missing, the dispatch faulted or the callback threw.
WhServerError ==
  /\ WhResponded /\ WhPost
  /\ \/ ~TruthyStr(wh.secret)
     \/ WhLastStep = "callbackThrew"
     \/ (WhLastStep = "dispatch" /\ whResp.val.status = 500)

\* C31: outside development mode the body of every 500 response made by
\* serverErrorResponse is the one generic message, whatever fault was caught,
\* and no error response carries a details field.
C31_DetailOnlyInDevelopment ==
  (WhResponded /\ ~envDevelopment) =>
    /\ WhServerError => whResp.val = [status |-> 500, body |-> [error |-> "Internal server error"]]
    /\ whResp.val.status >= 400 => DOMAIN whResp.val.body = {"error"}

\* C31 witness: in production mode a callback threw and the answer was the
\* generic one.
C31_Witness ==
  /\ WhResponded /\ ~envDevelopment /\ WhLastStep = "callbackThrew"
  /\ whResp.val = [status |-> 500, body |-> [error |-> "Internal server error"]]

\* C31, development mode: the message and the details of the error thrown are
\* in the body, and differ with the error.
C31_WitnessDevelopment ==
  /\ WhResponded /\ envDevelopment /\ WhLastStep = "callbackThrew"
  /\ whResp.val.body = [error |-> "bang", details |-> "Error: bang"]

C31_WitnessDevelopmentOther ==
  /\ WhResponded /\ envDevelopment /\ WhLastStep = "callbackThrew"
  /\ whResp.val.body = [error |-> "boom", details |-> "Error: boom"]

\* The CRUD router in production mode: every fault caught is answered with
\* the generic server error.
ResourceFaultIsGeneric ==
  (RsResponded /\ RsFaultCaught /\ ~envDevelopment) =>
    rsResp.val = [status |-> 500, body |-> [error |-> "Internal server error"]]

(***************************************************************************)
(* Requests side by side (SpecConcurrent).                                 *)
(***************************************************************************)
\* The outbound request the default handler builds from a context.
OutboundOf(op, ctx) ==
  BuildOutbound(DefaultHandlerStart(op, ctx, ConcurrentPath, envDevelopment).call.val,
                envApiUrl, envSecretKey, envFilterByUser)

\* C32: requests in flight side by side do not interfere: the controller of a
\* call is aborted by the timer of that call alone, a call returns the timeout
\* result only when it was itself aborted, and the outbound request, the
\* result and the response of a request come from its own context and its own
\* backend response.
C32_RequestsDoNotInterfere ==
  \A i \in Slots :
    LET c == inflight[i] IN
    c.pc # "idle" =>
      /\ c.out = Some(OutboundOf(c.op, c.ctx.val))
      /\ c.aborted => TimerDue(c.clock)
      /\ c.result = Some(TimeoutResult) <=> (c.aborted /\ c.pc \in {"returned", "responded"})
      /\ (c.pc \in {"returned", "responded"} /\ ~c.aborted /\ c.fault = None) =>
           (c.status # None /\ c.result.val.status = c.status.val)
      /\ c.fault # None => (~c.aborted /\ c.status = None)
      /\ c.pc = "responded" =>
           c.resp.val.status = IF c.fault # None THEN 500 ELSE c.result.val.status

\* A step changes the locals of one request and leaves the others' alone.
OneRequestPerStep ==
  [][\A i, j \in Slots :
       (i # j /\ inflight'[i] # inflight[i]) => inflight'[j] = inflight[j]]_vars

\* C32 witness: one call timed out while another, begun with another context,
\* was not aborted and got its own result.
C32_Witness ==
  \E i, j \in Slots :
    /\ i # j
    /\ inflight[i].pc = "returned" /\ inflight[i].result = Some(TimeoutResult)
    /\ inflight[j].pc = "returned" /\ ~inflight[j].aborted
    /\ inflight[j].result.val.status = 200
    /\ inflight[i].ctx # inflight[j].ctx

\* C32, a failure beside a call still waiting.
C32_WitnessFailure ==
  \E i, j \in Slots :
    /\ i # j
    /\ inflight[i].pc = "thrown"
    /\ inflight[j].pc = "fetching" /\ ~inflight[j].aborted /\ inflight[j].clock = 1

(***************************************************************************)
(* The cache of the default CORS handler (SpecCors).                       *)
(***************************************************************************)
\* The calls of getDefaultCorsHandler that returned a handler.
CorsHandlerCalls == {i \in DOMAIN corsReturned : corsReturned[i] # None}

\* C33: the cache of the default CORS handler is written at most once: it is
\* unset until a call finds a non-empty origin list, that call and every later
\* one return the one handler cached, whatever the environment has become, and
\* a call that finds no usable origin list returns undefined and leaves the
\* cache unset.
C33_CacheWrittenOnce ==
  /\ cachedDefaultHandler = None <=> CorsHandlerCalls = {}
  /\ \A i \in CorsHandlerCalls :
       /\ corsReturned[i] = cachedDefaultHandler
       /\ corsReturned[i].val # <<>>
       /\ \A j \in i..Len(corsReturned) : j \in CorsHandlerCalls

\* The cache changes only from null to the handler of the environment's
\* origins, in the call that returns it.
CacheWriteIsFirstHandler ==
  [][cachedDefaultHandler' # cachedDefaultHandler =>
       /\ cachedDefaultHandler = None
       /\ envAllowedOrigins # None
       /\ cachedDefaultHandler' = Some(ParseOrigins(envAllowedOrigins.val))
       /\ ParseOrigins(envAllowedOrigins.val) # <<>>
       /\ corsReturned' = Append(corsReturned, cachedDefaultHandler')]_vars

\* The call that has just returned undefined found no usable origin list.
UndefinedOnlyWithoutOrigins ==
  [][(Len(corsReturned') > Len(corsReturned) /\ corsReturned'[Len(corsReturned')] = None) =>
       /\ cachedDefaultHandler' = None
       /\ (envAllowedOrigins = None \/ ParseOrigins(envAllowedOrigins.val) = <<>>)]_vars

\* C33 witness: after a call without origins and a call that cached the
\* handler of one origin, the variable names other origins and the third call
\* returned the cached handler.
C33_Witness ==
  /\ corsReturned = <<None, Some(<<"https://a.test">>), Some(<<"https://a.test">>)>>
  /\ cachedDefaultHandler = Some(<<"https://a.test">>)
  /\ envAllowedOrigins = Some("https://b.test")

\* C33, the variable unset after the handler was cached; a list of blanks.
C33_WitnessUnset ==
  /\ Len(corsReturned) = 2 /\ corsReturned[2] # None
  /\ envAllowedOrigins = None

C33_WitnessBlank ==
  /\ corsReturned = <<None>> /\ envAllowedOrigins = Some(" , ") /\ cachedDefaultHandler = None

\* C34: when the outbound call of platformRequest completes, the result has
\* the backend's status, 2xx or not, and no error; its data is the parsed value
\* of a text that parses, the text itself when it does not parse, and null for
\* an empty text; a body that is not JSON never causes a fault.
C34_CompletedCallReturnsBody ==
  (PlRequestBuilt /\ plText # None) =>
    /\ plPc = "returned" /\ plFault = None
    /\ plResult.val.status = plStatus.val
    /\ plResult.val.error = None
    /\ plResult.val.data =
         CASE plText.val = "" -> [t |-> "null"]
           [] plText.val = "{\"id\":1}" -> [t |-> "object", f |-> [id |-> [t |-> "number", n |-> 1]]]
           [] OTHER -> [t |-> "string", s |-> plText.val]

\* C34 witness: a 500 whose body is not JSON came back as status 500, the text
\* as data, and no error.
C34_Witness ==
  /\ PlRequestBuilt /\ plPc = "returned"
  /\ plStatus = Some(500) /\ plText = Some("abc")
  /\ plResult.val = [data |-> JStr("abc"), status |-> 500, error |-> None]

\* C34, other cases: a parsed body with 404, an empty body with 200.
C34_WitnessParsed ==
  /\ PlRequestBuilt /\ plPc = "returned" /\ plStatus = Some(404)
  /\ plResult.val.data = JObj([id |-> JNum(1)])

C34_WitnessEmpty ==
  /\ PlRequestBuilt /\ plPc = "returned" /\ plStatus = Some(200) /\ plText = Some("")
  /\ plResult.val.data = JNull

\* The outbound request carries the identity of the caller, in its query
\* string or in its body.
OutboundCarriesIdentity ==
  \/ InOutboundQuery(<<"external_user_id", rsCtx.val.userId>>)
  \/ /\ plOut.val.body # None
     /\ plOut.val.body.val.t = "object"
     /\ "external_user_id" \in DOMAIN plOut.val.body.val.f
     /\ plOut.val.body.val.f["external_user_id"] = JStr(rsCtx.val.userId)

\* C35: with identity filtering enabled, the outbound request of every default
\* handler (list, get, create, update, delete) carries external_user_id equal
\* to the authenticated identity, in the query string or in the body.
C35_EveryOutboundCarriesIdentity ==
  \A op \in {"list", "get", "create", "update", "delete"} :
    (RsProxying(op) /\ FilteringEnabled) => OutboundCarriesIdentity

\* What holds: the outbound requests of list, get, create and update carry the
\* identity; the DELETE of the delete handler has neither the key in its query
\* string nor a body.
OutboundCarriesIdentityExceptDelete ==
  /\ \A op \in {"list", "get", "create", "update"} :
       (RsProxying(op) /\ FilteringEnabled) => OutboundCarriesIdentity
  /\ RsProxying("delete") => (plOut.val.query = <<>> /\ plOut.val.body = None)

\* The context of the request that differs from the present one only in the
\* external_user_id the client supplied, in the query string or in the body.
WithOtherClientIdentity(ctx) ==
  [ctx EXCEPT
     !.params = [i \in DOMAIN ctx.params |->
                   IF ctx.params[i][1] = "external_user_id"
                   THEN <<"external_user_id", "other">> ELSE ctx.params[i]],
     !.body = IF /\ ctx.body # None
                 /\ ctx.body.val.t = "object"
                 /\ "external_user_id" \in DOMAIN ctx.body.val.f
              THEN Some(JObj([ctx.body.val.f EXCEPT !["external_user_id"] = JStr("other")]))
              ELSE ctx.body]

\* The values of external_user_id in the outbound request, query string and
\* body together, and how many places hold one.
OutboundIdentityPlaces ==
  {<<"query", j>> : j \in {i \in DOMAIN plOut.val.query :
                             plOut.val.query[i][1] = "external_user_id"}}
    \cup (IF /\ plOut.val.body # None
             /\ plOut.val.body.val.t = "object"
             /\ "external_user_id" \in DOMAIN plOut.val.body.val.f
          THEN {<<"body", 0>>} ELSE {})

OutboundIdentityValue(place) ==
  IF place[1] = "query" THEN JStr(plOut.val.query[place[2]][2])
  ELSE plOut.val.body.val.f["external_user_id"]

\* The client supplied an external_user_id of its own with the request.
ClientSuppliedIdentity ==
  \/ \E i \in DOMAIN rsCtx.val.params : rsCtx.val.params[i][1] = "external_user_id"
  \/ /\ rsCtx.val.body # None
     /\ rsCtx.val.body.val.t = "object"
     /\ "external_user_id" \in DOMAIN rsCtx.val.body.val.f

\* C36: with identity filtering enabled, the outbound request of the default
\* list, get, create and update handlers holds exactly one external_user_id
\* value, the authenticated identity, whatever external_user_id the client
\* gave in the query string or in the JSON body; the request that differs only
\* in the client's external_user_id produces the same outbound request.
C36_ClientIdentityReplaced ==
  \A op \in {"list", "get", "create", "update"} :
    (RsProxying(op) /\ FilteringEnabled) =>
      /\ Cardinality(OutboundIdentityPlaces) = 1
      /\ \A place \in OutboundIdentityPlaces :
           OutboundIdentityValue(place) = JStr(rsCtx.val.userId)
      /\ plOut.val =
           BuildOutbound(DefaultHandlerStart(op, WithOtherClientIdentity(rsCtx.val),
                                             rs.platformPath, envDevelopment).call.val,
                         envApiUrl, envSecretKey, envFilterByUser)

\* C36 witness: a list request whose query string names another identity is
\* proxied with the authenticated one.
C36_Witness ==
  /\ RsProxying("list") /\ FilteringEnabled
  /\ rsCtx # None /\ plOut # None
  /\ \E i \in DOMAIN rsCtx.val.params : rsCtx.val.params[i] = <<"external_user_id", "evil">>
  /\ InOutboundQuery(<<"external_user_id", rsCtx.val.userId>>)
  /\ ~InOutboundQuery(<<"external_user_id", "evil">>)

\* C36, in the body: a create and an update whose body names another identity.
C36_WitnessCreate ==
  /\ RsProxying("create") /\ FilteringEnabled
  /\ rsCtx # None /\ plOut # None
  /\ ClientSuppliedIdentity
  /\ plOut.val.body.val.f["external_user_id"] = JStr(rsCtx.val.userId)

C36_WitnessUpdate ==
  /\ RsProxying("update") /\ FilteringEnabled
  /\ rsCtx # None /\ plOut # None
  /\ ClientSuppliedIdentity
  /\ rsCtx.val.body.val.f["external_user_id"] = JStr("evil")
  /\ plOut.val.body.val.f["external_user_id"] = JStr(rsCtx.val.userId)

\* A signed POST whose body parses as JSON has been answered.
WhParsedPostAnswered ==
  /\ WhResponded /\ WhSignedPost
  /\ JsonParse(whReq.val.body).ok

\* C37: a POST with a configured secret and a valid signature whose body parses
\* as JSON is answered 500 only if the invoked callback itself threw; for every
\* JSON value the body can be (null, a non-object value, an object without an
\* event field, an object with a recognized event and no data field) the
\* response is otherwise 200.
C37_OnlyCallbackFaultIs500 ==
  WhParsedPostAnswered =>
    /\ whResp.val.status \in {200, 500}
    /\ whResp.val.status = 500 => WhLastStep = "callbackThrew"

\* What holds: besides a throwing callback, the 500 is the answer to the body
\* null, whose event cannot be read, and to a meeting.processed payload without
\* data when onMeetingProcessed is registered; every other parsed body is
\* answered 200 unless the callback throws.
ParsedPostIs500OnUnreadablePayload ==
  WhParsedPostAnswered =>
    /\ whResp.val.status \in {200, 500}
    /\ whResp.val.status = 500 <=>
         \/ WhLastStep = "callbackThrew"
         \/ WhPayload = JNull
         \/ /\ WhEventIs("meeting.processed") /\ wh.onMeetingProcessed
            /\ GetProp(WhPayload, "data") = JUndefined

\* The default list, get, create or update handler awaits its platformRequest.
RsProxyingRead ==
  \E op \in {"list", "get", "create", "update"} : RsProxying(op)

\* C38: the default list, get, create and update handlers respond with exactly
\* the status platformRequest returned, 204 with an empty body and the 504 of
\* a timeout included, and with the returned data as the JSON body; a
\* completed backend call is never turned into a 500.
C38_StatusAndDataForwarded ==
  [][(RsProxyingRead /\ plPc = "returned" /\ rsPc' = "responded") =>
       rsResp' = Some([status |-> plResult.val.status, body |-> plResult.val.data])]_vars

\* What holds: status and data are forwarded unless the status is one a
\* Response with a body cannot have (204 and 205 of those the backend sends);
\* for these jsonResponse throws and the router answers 500 with the generic
\* message.
StatusForwardedUnlessNullBodyStatus ==
  [][(RsProxyingRead /\ plPc = "returned" /\ rsPc' = "responded") =>
       rsResp' = IF plResult.val.status \in {101, 103, 204, 205, 304}
                 THEN Some([status |-> 500, body |-> [error |-> "Internal server error"]])
                 ELSE Some([status |-> plResult.val.status, body |-> plResult.val.data])]_vars

\* The request was routed: it is a PUT or a PATCH with a resourceId.
RsRoutedPutOrPatch ==
  /\ rsReq # None /\ rsCtx # None
  /\ rsReq.val.method \in {"PUT", "PATCH"}
  /\ rsCtx.val.resourceId # None

\* C39: an inbound PUT with a resourceId is dispatched to the update operation
\* as a PATCH is; the default update handler issues its outbound call with
\* method PATCH to collection path + resourceId + "/", whatever the inbound
\* method was; no default handler issues an outbound PUT.
C39_PutIsUpdateOutboundIsPatch ==
  /\ RsRoutedPutOrPatch =>
       IF rs.handlers["update"] = "none"
       THEN rsCalls = <<>> /\ rsResp = Some(methodNotAllowedResponse(envDevelopment))
       ELSE rsCalls = <<[op |-> "update",
                         by |-> IF rs.handlers["update"] = "custom" THEN "custom" ELSE "default"]>>
  /\ RsProxying("update") =>
       /\ plOut.val.method = "PATCH"
       /\ plOut.val.path = rs.platformPath \o rsCtx.val.resourceId.val \o "/"
  /\ \A op \in {"list", "get", "create", "update", "delete"} :
       RsProxying(op) => plOut.val.method # "PUT"

\* C39 witness: an inbound PUT is proxied by the default update handler as a
\* PATCH to the item's path.
C39_Witness ==
  /\ RsRoutedPutOrPatch /\ rsReq.val.method = "PUT"
  /\ RsProxying("update")
  /\ plOut # None /\ plOut.val.method = "PATCH"
  /\ plOut.val.path = rs.platformPath \o rsCtx.val.resourceId.val \o "/"

\* C39, other cases: an inbound PATCH proxied alike; a PUT answered 405 when
\* the update operation is disabled.
C39_WitnessPatch ==
  /\ RsRoutedPutOrPatch /\ rsReq.val.method = "PATCH"
  /\ RsProxying("update")
  /\ plOut # None /\ plOut.val.method = "PATCH"

C39_WitnessDisabled ==
  /\ RsRoutedPutOrPatch /\ rsReq.val.method = "PUT"
  /\ rs.handlers["update"] = "none"
  /\ rsResp # None /\ rsResp.val.status = 405

HmacCollisionFree ==
  \A p1, p2 \in WebhookBodies, s1, s2 \in VerifySecrets :
    expectedSignature(p1, s1) = expectedSignature(p2, s2) => (p1 = p2 /\ s1 = s2)
====
